---- MODULE Spec2Model ----
(***************************************************************************)
(* A model of openapi-client-mcp: the document normalizer (discovery.ts),  *)
(* the request synthesizer and execution engine (http-client.ts), the      *)
(* call_api and manage_auth tools, and the persisted session store         *)
(* (session-manager.ts).                                                   *)
(*                                                                         *)
(* JavaScript strings are TLA+ strings (Len, SubSeq and \o act on them).   *)
(* A JavaScript value is a record [t, s, o]: t its kind, s its string form *)
(* for primitives, o the ordered <<key, JSON text>> entries of an object.  *)
(* A JavaScript object used as a map (headers, parameters, the auth map)   *)
(* is a sequence of <<key, value>> entries in insertion order.             *)
(***************************************************************************)
EXTENDS Naturals, Sequences, FiniteSets

VARIABLES
    storage,            \* SessionManager.storage: [sessions, activeSessionId]
    sessionFile,        \* content of ~/.openapi-client-mcp/sessions.json
    httpClientInstance, \* manage-auth.ts: the global client exists (TRUE) or is null
    authConfigs,        \* ApiHttpClient.authConfigs: apiSource -> AuthConfig or NoAuth
    pendingLoads,       \* import("./session-manager.js").then(...) callbacks not yet run
    call,               \* the call_api invocation in progress and its outcome
    spec,               \* the raw OpenAPI document handed to the normalizer
    apiInfo,            \* the normalizer's result for spec
    now,                \* Date.now(), a logical clock
    hist,               \* what the last manage_auth / restart observed (for the claims)
    ret                 \* how the last direct call of a SessionManager method ended

vars == <<storage, sessionFile, httpClientInstance, authConfigs, pendingLoads,
          call, spec, apiInfo, now, hist, ret>>

None == "none"

-----------------------------------------------------------------------------
(* JavaScript values and objects                                           *)

Undefined == [t |-> "undefined", s |-> "", o |-> <<>>]
Null == [t |-> "null", s |-> "null", o |-> <<>>]
Str(x) == [t |-> "string", s |-> x, o |-> <<>>]
Num(x) == [t |-> "number", s |-> x, o |-> <<>>]
Obj(entries) == [t |-> "object", s |-> "", o |-> entries]

\* JavaScript truthiness: !v is ~Truthy(v)
Truthy(v) ==
    CASE v.t = "undefined" -> FALSE
      [] v.t = "null" -> FALSE
      [] v.t = "string" -> v.s # ""
      [] v.t = "number" -> v.s # "0"
      [] OTHER -> TRUE

\* typeof v === "object" (true of null as well)
TypeofObject(v) == v.t \in {"object", "null"}

\* String(v)
JsString(v) ==
    CASE v.t = "object" -> "[object Object]"
      [] v.t = "undefined" -> "undefined"
      [] OTHER -> v.s

StartsWith(s, p) == Len(s) >= Len(p) /\ SubSeq(s, 1, Len(p)) = p

\* s.includes(t)
Includes(s, t) ==
    \/ Len(t) = 0
    \/ \E i \in 1..Len(s) : i + Len(t) - 1 <= Len(s) /\ SubSeq(s, i, i + Len(t) - 1) = t

\* s.substring(n) with n a 0-based start
Substring(s, n) == SubSeq(s, n + 1, Len(s))

Keys(m) == {m[i][1] : i \in 1..Len(m)}

Has(m, k) == \E i \in 1..Len(m) : m[i][1] = k

\* m[k] on an object: the entry's value, or undef when the key is absent
GetOr(m, k, undef) ==
    IF Has(m, k) THEN m[CHOOSE i \in 1..Len(m) : m[i][1] = k][2] ELSE undef

\* m[k] = v on an object: an existing key keeps its place, a new key is appended
Put(m, k, v) ==
    IF Has(m, k)
    THEN [i \in 1..Len(m) |-> IF m[i][1] = k THEN <<k, v>> ELSE m[i]]
    ELSE Append(m, <<k, v>>)

RECURSIVE JoinEntries(_)
JoinEntries(es) ==
    IF Len(es) = 0 THEN ""
    ELSE "\"" \o es[1][1] \o "\":" \o es[1][2]
         \o (IF Len(es) > 1 THEN "," ELSE "") \o JoinEntries(Tail(es))

\* JSON.stringify(v)
Stringify(v) ==
    CASE v.t = "string" -> "\"" \o v.s \o "\""
      [] v.t = "object" -> "{" \o JoinEntries(v.o) \o "}"
      [] OTHER -> v.s

-----------------------------------------------------------------------------
(* Document normalizer: src/src/utils/discovery.ts                         *)

AlnumChars == "abcdefghijklmnopqrstuvwxyzABCDEFGHIJKLMNOPQRSTUVWXYZ0123456789"

Alnum == {SubSeq(AlnumChars, i, i) : i \in 1..Len(AlnumChars)}

\* path.replace(/[^a-zA-Z0-9]/g, "_")
RECURSIVE SanitizePath(_)
SanitizePath(s) ==
    IF Len(s) = 0 THEN ""
    ELSE (IF SubSeq(s, 1, 1) \in Alnum THEN SubSeq(s, 1, 1) ELSE "_")
         \o SanitizePath(SubSeq(s, 2, Len(s)))

\* the methods array of extractOperations, in its order
methods == <<"get", "post", "put", "delete", "patch", "head", "options", "trace">>

\* method.toUpperCase() on the entries of methods
ToUpperCase(m) ==
    CASE m = "get" -> "GET" [] m = "post" -> "POST" [] m = "put" -> "PUT"
      [] m = "delete" -> "DELETE" [] m = "patch" -> "PATCH" [] m = "head" -> "HEAD"
      [] m = "options" -> "OPTIONS" [] m = "trace" -> "TRACE" [] OTHER -> m

NoBody == [declared |-> FALSE, required |-> FALSE, contentType |-> ""]

\* A raw parameter is [name, in, required]; a raw request body is
\* [present, required, content], content the sequence of its media types.
\* a slip that keeps the declared required flag of path parameters
extractParametersAsDeclared(operationParams, pathParams) ==
    LET allParams == pathParams \o operationParams
    IN [i \in 1..Len(allParams) |->
           [name |-> allParams[i].name, in |-> allParams[i].in,
            required |-> allParams[i].required]]

extractParameters(operationParams, pathParams) ==
    LET allParams == pathParams \o operationParams
    IN [i \in 1..Len(allParams) |->
           [name |-> allParams[i].name, in |-> allParams[i].in,
            required |-> allParams[i].required \/ allParams[i].in = "path"]]

extractRequestBody(requestBody) ==
    IF ~requestBody.present THEN NoBody
    ELSE IF Len(requestBody.content) = 0 THEN NoBody
    ELSE [declared |-> TRUE, required |-> requestBody.required,
          contentType |-> requestBody.content[1]]

\* the operations one path item contributes, for the methods from index m on
RECURSIVE pathItemOperations(_, _, _)
pathItemOperations(path, pathItem, m) ==
    IF m > Len(methods) THEN <<>>
    ELSE LET method == methods[m]
             rest == pathItemOperations(path, pathItem, m + 1)
         IN IF ~Has(pathItem.ops, method) THEN rest
            ELSE LET operation == GetOr(pathItem.ops, method, Undefined)
                 IN <<[operationId |->
                          IF operation.operationId # "" THEN operation.operationId
                          ELSE method \o "_" \o SanitizePath(path),
                       path |-> path,
                       method |-> ToUpperCase(method),
                       tags |-> operation.tags,
                       parameters |-> extractParameters(operation.parameters,
                                                        pathItem.parameters),
                       requestBody |-> extractRequestBody(operation.requestBody)]>>
                    \o rest

\* A raw document is [valid, paths, servers]; paths the entries <<path, pathItem>>.
RECURSIVE extractOperationsFrom(_, _)
extractOperationsFrom(paths, i) ==
    IF i > Len(paths) THEN <<>>
    ELSE pathItemOperations(paths[i][1], paths[i][2], 1)
         \o extractOperationsFrom(paths, i + 1)

extractOperations(document) == extractOperationsFrom(document.paths, 1)

NullApiInfo == [parsed |-> FALSE, path |-> "", servers |-> <<>>, operations |-> <<>>]

extractApiInfo(document, source) ==
    [parsed |-> TRUE, path |-> source, servers |-> document.servers,
     operations |-> extractOperations(document)]

\* parseOpenApiFile / parseOpenApiUrl: null when the bundle fails or throws
parseOpenApi(document, source) ==
    IF ~document.valid THEN NullApiInfo ELSE extractApiInfo(document, source)

-----------------------------------------------------------------------------
(* Request synthesizer: src/src/utils/http-client.ts                       *)

\* An AuthConfig is [type, config]; config the entries <<field, string>>.
\* NoAuth stands for an undefined authConfig.
NoAuth == [type |-> None, config |-> <<>>]

\* authConfig.config.<field>; an absent field and "" are both falsy
Field(authConfig, k) == GetOr(authConfig.config, k, "")

\* Buffer.from(s).toString("base64"), kept symbolic (it is injective)
Base64(s) == "base64(" \o s \o ")"

addAuthHeaders(headers, authConfig) ==
    CASE authConfig.type = "apiKey" ->
           IF Field(authConfig, "headerName") # "" /\ Field(authConfig, "apiKey") # ""
           THEN Put(headers, Field(authConfig, "headerName"), Field(authConfig, "apiKey"))
           ELSE headers
      [] authConfig.type = "bearer" ->
           IF Field(authConfig, "token") # ""
           THEN Put(headers, "Authorization", "Bearer " \o Field(authConfig, "token"))
           ELSE headers
      [] authConfig.type = "basic" ->
           IF Field(authConfig, "username") # "" /\ Field(authConfig, "password") # ""
           THEN Put(headers, "Authorization",
                    "Basic " \o Base64(Field(authConfig, "username") \o ":"
                                       \o Field(authConfig, "password")))
           ELSE headers
      [] authConfig.type = "oauth2" ->
           IF Field(authConfig, "accessToken") # ""
           THEN Put(headers, "Authorization", "Bearer " \o Field(authConfig, "accessToken"))
           ELSE headers
      [] OTHER -> headers

DefaultHeaders ==
    << <<"Content-Type", "application/json">>,
       <<"Accept", "application/json">>,
       <<"User-Agent", "openapi-client-mcp/1.0.0">> >>

\* the header-parameter loop of buildHeaders over operation.parameters[i..]
RECURSIVE addHeaderParameters(_, _, _, _)
addHeaderParameters(headers, declared, parameters, i) ==
    IF i > Len(declared) THEN headers
    ELSE LET param == declared[i]
             value == GetOr(parameters, param.name, Undefined)
         IN addHeaderParameters(
                IF param.in = "header" /\ value # Undefined
                THEN Put(headers, param.name, JsString(value))
                ELSE headers,
                declared, parameters, i + 1)

\* a slip that layers the caller's header parameters over the auth headers
buildHeadersAuthFirst(operation, parameters, authConfig) ==
    addHeaderParameters(
        IF authConfig # NoAuth THEN addAuthHeaders(DefaultHeaders, authConfig)
        ELSE DefaultHeaders,
        operation.parameters, parameters, 1)

buildHeaders(operation, parameters, authConfig) ==
    LET headers == addHeaderParameters(DefaultHeaders, operation.parameters, parameters, 1)
    IN IF authConfig # NoAuth THEN addAuthHeaders(headers, authConfig) ELSE headers

\* the body_ loop of buildRequestBody over Object.entries(parameters)[i..]
RECURSIVE collectBodyData(_, _)
collectBodyData(parameters, i) ==
    IF i > Len(parameters) THEN <<>>
    ELSE (IF StartsWith(parameters[i][1], "body_")
          THEN << <<Substring(parameters[i][1], 5), Stringify(parameters[i][2])>> >>
          ELSE <<>>)
         \o collectBodyData(parameters, i + 1)

\* a slip that keeps the body_ prefix on the assembled keys
buildRequestBodyKeepsPrefix(requestBody, parameters) ==
    IF ~requestBody.required
       /\ ~\E i \in 1..Len(parameters) : StartsWith(parameters[i][1], "body_")
    THEN Stringify(Obj(<<>>))
    ELSE LET body == GetOr(parameters, "body", Undefined)
             prefixed == SelectSeq(parameters, LAMBDA e : StartsWith(e[1], "body_"))
         IN IF Truthy(body) /\ TypeofObject(body)
            THEN Stringify(body)
            ELSE Stringify(Obj([i \in 1..Len(prefixed) |->
                                   <<prefixed[i][1], Stringify(prefixed[i][2])>>]))

buildRequestBody(requestBody, parameters) ==
    IF ~requestBody.required
       /\ ~\E i \in 1..Len(parameters) : StartsWith(parameters[i][1], "body_")
    THEN Stringify(Obj(<<>>))
    ELSE LET body == GetOr(parameters, "body", Undefined)
         IN IF Truthy(body) /\ TypeofObject(body)
            THEN Stringify(body)
            ELSE Stringify(Obj(collectBodyData(parameters, 1)))

Unreserved == Alnum \cup {"-", "_", ".", "!", "~", "*", "'", "(", ")"}

\* encodeURIComponent on one character
PercentEncode(c) ==
    CASE c \in Unreserved -> c
      [] c = " " -> "%20" [] c = "/" -> "%2F" [] c = ":" -> "%3A" [] c = "?" -> "%3F"
      [] c = "&" -> "%26" [] c = "=" -> "%3D" [] c = "{" -> "%7B" [] c = "}" -> "%7D"
      [] c = "%" -> "%25" [] c = "#" -> "%23" [] c = "$" -> "%24" [] c = "+" -> "%2B"
      [] OTHER -> "%3F"

RECURSIVE encodeURIComponent(_)
encodeURIComponent(s) ==
    IF Len(s) = 0 THEN ""
    ELSE PercentEncode(SubSeq(s, 1, 1)) \o encodeURIComponent(SubSeq(s, 2, Len(s)))

\* s.replace(pattern, replacement) with a string pattern: the first occurrence only
ReplaceFirst(s, pattern, replacement) ==
    IF ~Includes(s, pattern) \/ Len(pattern) = 0 THEN s
    ELSE LET at == CHOOSE i \in 1..Len(s) :
                       /\ i + Len(pattern) - 1 <= Len(s)
                       /\ SubSeq(s, i, i + Len(pattern) - 1) = pattern
                       /\ \A j \in 1..(i - 1) : SubSeq(s, j, j + Len(pattern) - 1) # pattern
         IN SubSeq(s, 1, at - 1) \o replacement \o SubSeq(s, at + Len(pattern), Len(s))

\* the parameter loop of buildUrl over operation.parameters[i..]: [path, queryParams]
RECURSIVE substituteParameters(_, _, _, _)
substituteParameters(acc, declared, parameters, i) ==
    IF i > Len(declared) THEN acc
    ELSE LET param == declared[i]
             value == GetOr(parameters, param.name, Undefined)
         IN substituteParameters(
                IF param.in = "path" /\ value # Undefined
                THEN [acc EXCEPT !.path =
                         ReplaceFirst(@, "{" \o param.name \o "}",
                                      encodeURIComponent(JsString(value)))]
                ELSE IF param.in = "query" /\ value # Undefined
                THEN [acc EXCEPT !.queryParams =
                         Append(@, encodeURIComponent(param.name) \o "="
                                   \o encodeURIComponent(JsString(value)))]
                ELSE acc,
                declared, parameters, i + 1)

\* queryParams.join("&")
RECURSIVE JoinAmp(_)
JoinAmp(qs) ==
    IF Len(qs) = 0 THEN ""
    ELSE qs[1] \o (IF Len(qs) > 1 THEN "&" ELSE "") \o JoinAmp(Tail(qs))

\* a slip that joins the base URL as it is
buildUrlNoStrip(baseUrl, operation, parameters) ==
    LET sub == substituteParameters([path |-> operation.path, queryParams |-> <<>>],
                                    operation.parameters, parameters, 1)
        cleanPath == IF StartsWith(sub.path, "/") THEN sub.path ELSE "/" \o sub.path
    IN baseUrl \o cleanPath
       \o (IF Len(sub.queryParams) > 0 THEN "?" \o JoinAmp(sub.queryParams) ELSE "")

buildUrl(baseUrl, operation, parameters) ==
    LET sub == substituteParameters([path |-> operation.path, queryParams |-> <<>>],
                                    operation.parameters, parameters, 1)
        cleanBaseUrl == IF Len(baseUrl) > 0 /\ SubSeq(baseUrl, Len(baseUrl), Len(baseUrl)) = "/"
                        THEN SubSeq(baseUrl, 1, Len(baseUrl) - 1) ELSE baseUrl
        cleanPath == IF StartsWith(sub.path, "/") THEN sub.path ELSE "/" \o sub.path
    IN cleanBaseUrl \o cleanPath
       \o (IF Len(sub.queryParams) > 0 THEN "?" \o JoinAmp(sub.queryParams) ELSE "")

NoRequest == [url |-> "", method |-> "", headers |-> <<>>, hasBody |-> FALSE, body |-> ""]

buildRequest(baseUrl, operation, parameters, authConfig) ==
    LET withBody == operation.requestBody.declared
                    /\ operation.method \in {"POST", "PUT", "PATCH"}
    IN [url |-> buildUrl(baseUrl, operation, parameters),
        method |-> operation.method,
        headers |-> buildHeaders(operation, parameters, authConfig),
        hasBody |-> withBody,
        body |-> IF withBody THEN buildRequestBody(operation.requestBody, parameters)
                 ELSE ""]

\* response.status printed in a template string: the decimal digits of n < 1000
StatusString(n) ==
    LET Digit(d) == SubSeq("0123456789", d + 1, d + 1)
    IN Digit(n \div 100) \o Digit((n \div 10) % 10) \o Digit(n % 10)

\* A response is [status, statusText, contentType, body]: contentType "" is a
\* response without content-type header; body is [text, json], json telling whether
\* the text is well-formed JSON. Parsed JSON is kept as the text it was parsed from.
NoData == [kind |-> "undefined", value |-> ""]

\* the response's headers as node-fetch's Headers.forEach presents them
responseHeaders(response) ==
    IF response.contentType = "" THEN <<>>
    ELSE << <<"content-type", response.contentType>> >>

\* processResponse lines 243-256: response.json() or response.text(), and the
\* message in place of a body that does not parse
responseData(response) ==
    IF Includes(response.contentType, "application/json")
    THEN IF response.body.json
         THEN [kind |-> "json", value |-> response.body.text]
         ELSE [kind |-> "string",
               value |-> "Failed to parse response: Unexpected token in JSON"]
    ELSE [kind |-> "string", value |-> response.body.text]

NoResult == [returned |-> FALSE, success |-> FALSE, hasStatusCode |-> FALSE,
             statusCode |-> 0, error |-> "", hasExecutionTime |-> FALSE,
             hasHeaders |-> FALSE, headers |-> <<>>, data |-> NoData]

\* a slip that classifies by "not a client or server error"
processResponseBelow400(response) ==
    LET ok == response.status < 400
    IN [returned |-> TRUE, success |-> ok, hasStatusCode |-> TRUE,
        statusCode |-> response.status,
        error |-> IF ok THEN ""
                  ELSE "HTTP " \o StatusString(response.status) \o ": " \o response.statusText,
        hasExecutionTime |-> TRUE,
        hasHeaders |-> TRUE, headers |-> responseHeaders(response),
        data |-> responseData(response)]

\* processResponse; response.ok is node-fetch's 200 <= status < 300
processResponse(response) ==
    LET ok == response.status >= 200 /\ response.status < 300
    IN [returned |-> TRUE, success |-> ok, hasStatusCode |-> TRUE,
        statusCode |-> response.status,
        error |-> IF ok THEN ""
                  ELSE "HTTP " \o StatusString(response.status) \o ": " \o response.statusText,
        hasExecutionTime |-> TRUE,
        hasHeaders |-> TRUE, headers |-> responseHeaders(response),
        data |-> responseData(response)]

\* what fetch rejected with, or what buildRequest threw: an Error with its message,
\* or a value that is not an Error
NoRejection == [thrown |-> FALSE, isError |-> FALSE, message |-> ""]

\* a slip that reports status 0 for a failure without response
transportFailureStatusZero(error) ==
    [returned |-> TRUE, success |-> FALSE, hasStatusCode |-> TRUE, statusCode |-> 0,
     error |-> IF error.isError THEN error.message ELSE "Unknown error occurred",
     hasExecutionTime |-> TRUE, hasHeaders |-> FALSE, headers |-> <<>>, data |-> NoData]

\* the catch block of callOperation
transportFailure(error) ==
    [returned |-> TRUE, success |-> FALSE, hasStatusCode |-> FALSE, statusCode |-> 0,
     error |-> IF error.isError THEN error.message ELSE "Unknown error occurred",
     hasExecutionTime |-> TRUE, hasHeaders |-> FALSE, headers |-> <<>>, data |-> NoData]

\* ApiHttpClient.authConfigs is a function on the strings the model uses as api
\* sources; NoAuth marks a key the Map does not hold.
\* ApiHttpClient.getAuthConfig: Map.get, an exact-match lookup
getAuthConfig(configs, apiSource) == configs[apiSource]

\* ApiHttpClient.setAuthConfig: Map.set
setClientAuthConfig(configs, apiSource, authConfig) ==
    [configs EXCEPT ![apiSource] = authConfig]

-----------------------------------------------------------------------------
(* call_api: src/src/tools/call-api.ts                                     *)

\* CallApiParams is [docs_path, operation_id, hasParameters, parameters,
\*                   hasAuthConfig, auth_config, base_url]; base_url "" when absent.

HasOperation(info, id) == \E i \in 1..Len(info.operations) : info.operations[i].operationId = id

\* apiInfo.operations.find(op => op.operationId === id): the first match
findOperation(info, id) ==
    info.operations[CHOOSE i \in 1..Len(info.operations) :
                        /\ info.operations[i].operationId = id
                        /\ \A j \in 1..(i - 1) : info.operations[j].operationId # id]

\* a slip that lists every operation id instead of the first ten
availableOpsNoSlice(info) ==
    [i \in 1..Len(info.operations) |-> info.operations[i].operationId]

\* apiInfo.operations.map(op => op.operationId).slice(0, 10), the ids the
\* not-found message lists
availableOps(info) ==
    [i \in 1..(IF Len(info.operations) > 10 THEN 10 ELSE Len(info.operations)) |->
        info.operations[i].operationId]

\* the required-parameter loop over operation.parameters[i..]
RECURSIVE missingDeclared(_, _, _)
missingDeclared(declared, params, i) ==
    IF i > Len(declared) THEN <<>>
    ELSE (IF declared[i].required
             /\ (~params.hasParameters
                 \/ GetOr(params.parameters, declared[i].name, Undefined) = Undefined)
          THEN <<declared[i].name \o " (" \o declared[i].in \o ")">>
          ELSE <<>>)
         \o missingDeclared(declared, params, i + 1)

\* a slip that stops validating at the first missing item
missingParamsFirstOnly(operation, params) ==
    LET all == missingDeclared(operation.parameters, params, 1)
                 \o (IF operation.requestBody.required
                        /\ (~params.hasParameters
                            \/ ~Truthy(GetOr(params.parameters, "body", Undefined)))
                     THEN <<"body (request body)">> ELSE <<>>)
    IN IF Len(all) > 1 THEN <<all[1]>> ELSE all

missingParams(operation, params) ==
    missingDeclared(operation.parameters, params, 1)
      \o (IF operation.requestBody.required
             /\ (~params.hasParameters
                 \/ ~Truthy(GetOr(params.parameters, "body", Undefined)))
          THEN <<"body (request body)">> ELSE <<>>)

\* lines 144-155: the managed auth, else the inline auth_config
resolveAuth(configs, params) ==
    LET managed == getAuthConfig(configs, params.docs_path)
    IN IF params.hasAuthConfig /\ managed = NoAuth
       THEN [type |-> GetOr(params.auth_config, "type", "undefined"),
             config |-> params.auth_config]
       ELSE managed

NoOperation == [operationId |-> "", path |-> "", method |-> "", tags |-> <<>>,
                parameters |-> <<>>, requestBody |-> NoBody]

NoParams == [docs_path |-> "", operation_id |-> "", hasParameters |-> FALSE,
             parameters |-> <<>>, hasAuthConfig |-> FALSE, auth_config |-> <<>>,
             base_url |-> ""]

IdleCall == [pc |-> "idle", params |-> NoParams, outcome |-> "", missingParams |-> <<>>,
             availableOps |-> <<>>, lookedUp |-> FALSE, managed |-> NoAuth, authConfig |-> NoAuth,
             operation |-> NoOperation, request |-> NoRequest,
             baseUrl |-> "", requests |-> 0, results |-> 0, response |-> <<>>,
             rejection |-> NoRejection,
             result |-> NoResult]

\* the tail of callApi once an operation is found: to the fetch, or to a return
\* when returnOnMissing (the code's early return at lines 86-129) applies
validateAndCall(c, info, configs, returnOnMissing) ==
    LET params == c.params
        operation == findOperation(info, params.operation_id)
        missing == missingParams(operation, params)
        baseUrl == IF params.base_url # "" THEN params.base_url
                   ELSE IF Len(info.servers) > 0 THEN info.servers[1] ELSE ""
        authConfig == resolveAuth(configs, params)
    IN IF Len(missing) > 0 /\ returnOnMissing
       THEN [c EXCEPT !.pc = "done", !.outcome = "missing_parameters",
                      !.operation = operation, !.missingParams = missing]
       ELSE IF baseUrl = ""
       THEN [c EXCEPT !.pc = "done", !.outcome = "no_server", !.operation = operation,
                      !.missingParams = missing]
       ELSE [c EXCEPT !.pc = "fetching", !.operation = operation,
                      !.missingParams = missing,
                      !.lookedUp = TRUE,
                      !.managed = getAuthConfig(configs, params.docs_path),
                      !.authConfig = authConfig,
                      !.baseUrl = baseUrl,
                      !.request = buildRequest(baseUrl, operation,
                          IF params.hasParameters THEN params.parameters ELSE <<>>,
                          authConfig),
                      !.requests = @ + 1]

\* a slip that drops the early return on a validation failure
afterParseNoReturn(c, info, configs) ==
    IF ~info.parsed THEN [c EXCEPT !.pc = "done", !.outcome = "parse_failed"]
    ELSE IF ~HasOperation(info, c.params.operation_id)
    THEN [c EXCEPT !.pc = "done", !.outcome = "operation_not_found",
                   !.availableOps = availableOps(info)]
    ELSE validateAndCall(c, info, configs, FALSE)

\* callApi from the return of the parse up to its next await (the fetch) or its return
afterParse(c, info, configs) ==
    IF ~info.parsed THEN [c EXCEPT !.pc = "done", !.outcome = "parse_failed"]
    ELSE IF ~HasOperation(info, c.params.operation_id)
    THEN [c EXCEPT !.pc = "done", !.outcome = "operation_not_found",
                   !.availableOps = availableOps(info)]
    ELSE validateAndCall(c, info, configs, TRUE)

-----------------------------------------------------------------------------
(* Operation listing: src/src/tools/list-operations.ts                     *)

\* s.toLowerCase() on ASCII text
RECURSIVE toLowerCase(_)
toLowerCase(s) ==
    IF Len(s) = 0 THEN ""
    ELSE LET upper == "ABCDEFGHIJKLMNOPQRSTUVWXYZ"
             lower == "abcdefghijklmnopqrstuvwxyz"
             c == SubSeq(s, 1, 1)
             at == {i \in 1..Len(upper) : SubSeq(upper, i, i) = c}
         IN (IF at = {} THEN c
             ELSE LET i == CHOOSE i \in at : TRUE IN SubSeq(lower, i, i))
            \o toLowerCase(SubSeq(s, 2, Len(s)))

\* ListOperationsParams is [docs_path, hasTag, tag, hasMethod, method]. The result
\* is [outcome, operations]: the operation ids in the order the response text lists
\* them, under the headings of operationsByTag (tags that are integer strings,
\* which Object.entries would move to the front, are not among the tags used).
\* a slip that composes the two filters with OR
listOperationsEitherFilter(info, params) ==
    IF ~info.parsed THEN [outcome |-> "parse_failed", operations |-> <<>>]
    ELSE
    LET tagTest(op) ==
            (params.hasTag /\ params.tag # "")
            => \E t \in 1..Len(op.tags) :
                   Includes(toLowerCase(op.tags[t]), toLowerCase(params.tag))
        methodTest(op) ==
            (params.hasMethod /\ params.method # "")
            => toLowerCase(op.method) = toLowerCase(params.method)
        eitherTest(op) ==
            IF params.hasTag /\ params.tag # "" /\ params.hasMethod /\ params.method # ""
            THEN \/ \E t \in 1..Len(op.tags) :
                        Includes(toLowerCase(op.tags[t]), toLowerCase(params.tag))
                 \/ toLowerCase(op.method) = toLowerCase(params.method)
            ELSE tagTest(op) /\ methodTest(op)
        operations == SelectSeq(info.operations, eitherTest)
        n == Len(operations)
        \* op.tags?.[0] || "General"
        tag(i) == IF Len(operations[i].tags) > 0 /\ operations[i].tags[1] # ""
                  THEN operations[i].tags[1] ELSE "General"
        \* the position at which the heading of operation i was inserted
        heading(i) == CHOOSE j \in 1..i :
                          tag(j) = tag(i) /\ \A k \in 1..(j - 1) : tag(k) # tag(i)
        \* the place of operation i in the text
        rank(i) == 1 + Cardinality({j \in 1..n :
                          \/ heading(j) < heading(i)
                          \/ heading(j) = heading(i) /\ j < i})
    IN IF n = 0 THEN [outcome |-> "empty", operations |-> <<>>]
       ELSE [outcome |-> "listed",
             operations |-> [r \in 1..n |->
                 operations[CHOOSE i \in 1..n : rank(i) = r].operationId]]

listOperations(info, params) ==
    IF ~info.parsed THEN [outcome |-> "parse_failed", operations |-> <<>>]
    ELSE
    LET tagTest(op) ==
            (params.hasTag /\ params.tag # "")
            => \E t \in 1..Len(op.tags) :
                   Includes(toLowerCase(op.tags[t]), toLowerCase(params.tag))
        methodTest(op) ==
            (params.hasMethod /\ params.method # "")
            => toLowerCase(op.method) = toLowerCase(params.method)
        operations == SelectSeq(SelectSeq(info.operations, tagTest), methodTest)
        n == Len(operations)
        \* op.tags?.[0] || "General"
        tag(i) == IF Len(operations[i].tags) > 0 /\ operations[i].tags[1] # ""
                  THEN operations[i].tags[1] ELSE "General"
        \* the position at which the heading of operation i was inserted
        heading(i) == CHOOSE j \in 1..i :
                          tag(j) = tag(i) /\ \A k \in 1..(j - 1) : tag(k) # tag(i)
        \* the place of operation i in the text
        rank(i) == 1 + Cardinality({j \in 1..n :
                          \/ heading(j) < heading(i)
                          \/ heading(j) = heading(i) /\ j < i})
    IN IF n = 0 THEN [outcome |-> "empty", operations |-> <<>>]
       ELSE [outcome |-> "listed",
             operations |-> [r \in 1..n |->
                 operations[CHOOSE i \in 1..n : rank(i) = r].operationId]]

-----------------------------------------------------------------------------
(* Session store: src/src/utils/session-manager.ts                         *)

\* A session is [id, baseUrl, openApiPath, authConfig, lastUsed]; openApiPath ""
\* and authConfig NoAuth stand for undefined. storage.sessions holds the entries
\* <<id, session>> in insertion order; activeSessionId "" stands for undefined.
\* hasSessions is FALSE when storage has no sessions object at all.
EmptyStorage == [sessions |-> <<>>, activeSessionId |-> "", hasSessions |-> TRUE]

Digits36 == "0123456789abcdefghijklmnopqrstuvwxyz"

\* n.toString(36) for n < 36
Base36(n) == SubSeq(Digits36, n + 1, n + 1)

\* url.replace(/\/$/, "")
StripTrailingSlash(url) ==
    IF Len(url) > 0 /\ SubSeq(url, Len(url), Len(url)) = "/"
    THEN SubSeq(url, 1, Len(url) - 1) ELSE url

\* normalizeBaseUrl on an absolute lower-case URL without port, query or fragment:
\* new URL gives an empty path the pathname "/", and one trailing slash is removed
normalizeBaseUrl(url) == StripTrailingSlash(url)

\* Buffer.from(normalized).toString("base64").replace(/[+/=]/g, "").substring(0, 8):
\* the first eight base64 characters encode the first six bytes of the URL
Hash8(normalized) ==
    IF StartsWith(normalized, "https:") THEN "aHR0cHM6"
    ELSE IF StartsWith(normalized, "http:/") THEN "aHR0cDov"
    ELSE "other"

generateSessionId(baseUrl, t) ==
    "session_" \o Hash8(normalizeBaseUrl(baseUrl)) \o "_" \o Base36(t)

\* JSON.stringify of a session: undefined fields are left out
serializeSession(session) ==
    << <<"id", session.id>>, <<"baseUrl", session.baseUrl>>,
       <<"lastUsed", session.lastUsed>> >>
    \o (IF session.openApiPath # "" THEN << <<"openApiPath", session.openApiPath>> >>
        ELSE <<>>)
    \o (IF session.authConfig # NoAuth THEN << <<"authConfig", session.authConfig>> >>
        ELSE <<>>)

\* JSON.parse of a serialized session: a field left out reads as undefined
parseSession(json) ==
    [id |-> GetOr(json, "id", ""), baseUrl |-> GetOr(json, "baseUrl", ""),
     openApiPath |-> GetOr(json, "openApiPath", ""),
     authConfig |-> GetOr(json, "authConfig", NoAuth),
     lastUsed |-> GetOr(json, "lastUsed", 0)]

\* The session file: content is "store" for the JSON of a SessionStorage, "json" for
\* JSON of another shape ({} or null), "garbage" for text JSON.parse rejects;
\* writable is FALSE when fs.writeFileSync on it throws.
NoFile == [exists |-> FALSE, content |-> "store", writable |-> TRUE,
           sessions |-> <<>>, activeSessionId |-> <<>>]

\* saveSessions: fs.writeFileSync(sessionFile, JSON.stringify(storage))
saveSessions(st) ==
    [exists |-> TRUE, content |-> "store", writable |-> TRUE,
     sessions |-> [i \in 1..Len(st.sessions) |->
                      <<st.sessions[i][1], serializeSession(st.sessions[i][2])>>],
     activeSessionId |-> IF st.activeSessionId # "" THEN <<st.activeSessionId>> ELSE <<>>]

\* the storage JSON.parse yields for a file whose JSON is not a SessionStorage
NoSessionsStorage == [sessions |-> <<>>, activeSessionId |-> "", hasSessions |-> FALSE]

\* loadSessions: an absent file and a JSON.parse error give the empty store; any
\* JSON that parses becomes the storage as it is
loadSessions(file) ==
    IF ~file.exists \/ file.content = "garbage" THEN EmptyStorage
    ELSE IF file.content = "json" THEN NoSessionsStorage
    ELSE [sessions |-> [i \in 1..Len(file.sessions) |->
                           <<file.sessions[i][1], parseSession(file.sessions[i][2])>>],
          activeSessionId |-> IF Len(file.activeSessionId) > 0
                              THEN file.activeSessionId[1] ELSE "",
          hasSessions |-> TRUE]

\* saveSessions on the file as it is: a write that throws is logged and leaves it
writeSessions(file, st) == IF file.writable THEN saveSessions(st) ELSE file

NoSession == [id |-> "", baseUrl |-> "", openApiPath |-> "", authConfig |-> NoAuth,
              lastUsed |-> 0]

getSession(st, sessionId) == GetOr(st.sessions, sessionId, NoSession)

\* x, which precedes every element of sorted in the original order, put in its place:
\* after the strictly more recent ones (Array.prototype.sort is stable)
RECURSIVE InsertByLastUsed(_, _)
InsertByLastUsed(sorted, x) ==
    IF Len(sorted) > 0 /\ sorted[1].lastUsed > x.lastUsed
    THEN <<sorted[1]>> \o InsertByLastUsed(Tail(sorted), x)
    ELSE <<x>> \o sorted

RECURSIVE SortByLastUsed(_, _)
SortByLastUsed(entries, i) ==
    IF i > Len(entries) THEN <<>>
    ELSE InsertByLastUsed(SortByLastUsed(entries, i + 1), entries[i][2])

\* listSessions: Object.values sorted by lastUsed, most recent first
listSessions(st) == SortByLastUsed(st.sessions, 1)

\* a slip that compares the base URLs as given
HasSessionByBaseUrlAsGiven(st, baseUrl) ==
    \E i \in 1..Len(st.sessions) : st.sessions[i][2].baseUrl = baseUrl

\* getSessionByBaseUrl: the first session, in insertion order, with that normal form
HasSessionByBaseUrl(st, baseUrl) ==
    \E i \in 1..Len(st.sessions) :
        normalizeBaseUrl(st.sessions[i][2].baseUrl) = normalizeBaseUrl(baseUrl)

getSessionByBaseUrl(st, baseUrl) ==
    st.sessions[CHOOSE i \in 1..Len(st.sessions) :
        /\ normalizeBaseUrl(st.sessions[i][2].baseUrl) = normalizeBaseUrl(baseUrl)
        /\ \A j \in 1..(i - 1) :
               normalizeBaseUrl(st.sessions[j][2].baseUrl) # normalizeBaseUrl(baseUrl)][2]

createSession(st, baseUrl, t) ==
    LET id == generateSessionId(baseUrl, t)
        session == [id |-> id, baseUrl |-> baseUrl, openApiPath |-> "",
                    authConfig |-> NoAuth, lastUsed |-> t]
    IN [st EXCEPT !.sessions = Put(@, id, session), !.activeSessionId = id]

\* updateSession(sessionId, { openApiPath }) as initApi calls it
updateSession(st, sessionId, openApiPath, t) ==
    IF ~Has(st.sessions, sessionId) THEN st
    ELSE [st EXCEPT !.sessions =
             Put(@, sessionId, [getSession(st, sessionId) EXCEPT
                                   !.openApiPath = openApiPath, !.lastUsed = t])]

setActiveSession(st, sessionId, t) ==
    IF ~Has(st.sessions, sessionId) THEN st
    ELSE [st EXCEPT !.sessions = Put(@, sessionId,
                                     [getSession(st, sessionId) EXCEPT !.lastUsed = t]),
                    !.activeSessionId = sessionId]

\* a slip that leaves the pointer on the deleted session
deleteSessionKeepsPointer(st, sessionId) ==
    IF ~Has(st.sessions, sessionId) THEN st
    ELSE [st EXCEPT !.sessions = SelectSeq(@, LAMBDA e : e[1] # sessionId)]

deleteSession(st, sessionId) ==
    IF ~Has(st.sessions, sessionId) THEN st
    ELSE LET left == [st EXCEPT !.sessions = SelectSeq(@, LAMBDA e : e[1] # sessionId)]
             sessions == listSessions(left)
         IN IF st.activeSessionId = sessionId
            THEN [left EXCEPT !.activeSessionId =
                     IF Len(sessions) > 0 THEN sessions[1].id ELSE ""]
            ELSE left

\* a slip that makes a record for an id the store does not hold
setAuthConfigUpserts(st, sessionId, authConfig, t) ==
    [st EXCEPT !.sessions =
        Put(@, sessionId, [getSession(st, sessionId) EXCEPT
                              !.id = sessionId, !.authConfig = authConfig,
                              !.lastUsed = t])]

\* SessionManager.setAuthConfig
setAuthConfig(st, sessionId, authConfig, t) ==
    IF ~Has(st.sessions, sessionId) THEN st
    ELSE [st EXCEPT !.sessions =
             Put(@, sessionId, [getSession(st, sessionId) EXCEPT
                                   !.authConfig = authConfig, !.lastUsed = t])]

-----------------------------------------------------------------------------
(* The client's credential map and manage_auth:                            *)
(* src/src/utils/http-client.ts, src/src/tools/manage-auth.ts              *)

\* the forEach of loadAuthFromSessions over sessions[i..]
RECURSIVE loadAuthFrom(_, _, _)
loadAuthFrom(configs, sessions, i) ==
    IF i > Len(sessions) THEN configs
    ELSE LET session == sessions[i]
         IN loadAuthFrom(
                IF session.authConfig # NoAuth /\ session.openApiPath # ""
                THEN [configs EXCEPT ![session.openApiPath] = session.authConfig,
                                     ![session.baseUrl] = session.authConfig]
                ELSE configs,
                sessions, i + 1)

RECURSIVE loadAuthPathOnlyFrom(_, _, _)
loadAuthPathOnlyFrom(configs, sessions, i) ==
    IF i > Len(sessions) THEN configs
    ELSE LET session == sessions[i]
         IN loadAuthPathOnlyFrom(
                IF session.authConfig # NoAuth /\ session.openApiPath # ""
                THEN [configs EXCEPT ![session.openApiPath] = session.authConfig]
                ELSE configs,
                sessions, i + 1)

\* a slip that indexes a session under its openApiPath only
loadAuthFromSessionsPathOnly(configs, st) ==
    loadAuthPathOnlyFrom(configs, listSessions(st), 1)

\* the callback of loadAuthFromSessions, run on the store as it is then
loadAuthFromSessions(configs, st) == loadAuthFrom(configs, listSessions(st), 1)

\* a slip that stops at the first missing field
validationErrorsFirstOnly(authConfig) ==
    CASE authConfig.type = "apiKey" ->
           IF Field(authConfig, "headerName") = ""
           THEN <<"headerName is required for API key authentication">>
           ELSE IF Field(authConfig, "apiKey") = ""
                THEN <<"apiKey is required for API key authentication">> ELSE <<>>
      [] authConfig.type = "bearer" ->
           IF Field(authConfig, "token") = ""
           THEN <<"token is required for bearer authentication">> ELSE <<>>
      [] authConfig.type = "basic" ->
           IF Field(authConfig, "username") = ""
           THEN <<"username is required for basic authentication">>
           ELSE IF Field(authConfig, "password") = ""
                THEN <<"password is required for basic authentication">> ELSE <<>>
      [] authConfig.type = "oauth2" ->
           IF Field(authConfig, "accessToken") = ""
           THEN <<"accessToken is required for OAuth2 authentication">> ELSE <<>>
      [] OTHER -> <<>>

\* manageAuth lines 31-68: the missing required fields of the auth kind
validationErrors(authConfig) ==
    CASE authConfig.type = "apiKey" ->
           (IF Field(authConfig, "headerName") = ""
            THEN <<"headerName is required for API key authentication">> ELSE <<>>)
           \o (IF Field(authConfig, "apiKey") = ""
               THEN <<"apiKey is required for API key authentication">> ELSE <<>>)
      [] authConfig.type = "bearer" ->
           IF Field(authConfig, "token") = ""
           THEN <<"token is required for bearer authentication">> ELSE <<>>
      [] authConfig.type = "basic" ->
           (IF Field(authConfig, "username") = ""
            THEN <<"username is required for basic authentication">> ELSE <<>>)
           \o (IF Field(authConfig, "password") = ""
               THEN <<"password is required for basic authentication">> ELSE <<>>)
      [] authConfig.type = "oauth2" ->
           IF Field(authConfig, "accessToken") = ""
           THEN <<"accessToken is required for OAuth2 authentication">> ELSE <<>>
      [] OTHER -> <<>>

\* the predicate of sessions.find in manageAuth, lines 138-145
matchesSession(session, docs_path) ==
    \/ session.openApiPath = docs_path
    \/ session.baseUrl = docs_path
    \/ (session.openApiPath # "" /\ Includes(session.openApiPath, docs_path))
    \/ Includes(docs_path, session.baseUrl)

HasMatchingSession(st, docs_path) ==
    \E i \in 1..Len(st.sessions) : matchesSession(st.sessions[i][2], docs_path)

\* sessions.find over listSessions(): the most recently used match
matchingSession(st, docs_path) ==
    LET sessions == listSessions(st)
    IN sessions[CHOOSE i \in 1..Len(sessions) :
                    /\ matchesSession(sessions[i], docs_path)
                    /\ \A j \in 1..(i - 1) : ~matchesSession(sessions[j], docs_path)]

-----------------------------------------------------------------------------
(* The documents and inputs the model draws from                           *)

MaxClock == 4
MaxPending == 2

Param(name, in, required) == [name |-> name, in |-> in, required |-> required]

NoRawBody == [present |-> FALSE, required |-> FALSE, content |-> <<>>]

RawBody(required) ==
    [present |-> TRUE, required |-> required, content |-> <<"application/json">>]

RawOperation(id, tags, parameters, requestBody) ==
    [operationId |-> id, tags |-> tags, parameters |-> parameters,
     requestBody |-> requestBody]

PathItem(parameters, ops) == [parameters |-> parameters, ops |-> ops]

\* the document behind "petstore.yaml"
PetstoreDoc ==
    [valid |-> TRUE,
     servers |-> <<"https://petstore.io/v1/">>,
     paths |-> <<
        <<"/pets/{petId}",
          PathItem(<<Param("petId", "path", FALSE)>>,
             << <<"get", RawOperation("getPet", <<"pets">>,
                          <<Param("Authorization", "header", TRUE),
                            Param("X-API-Key", "header", FALSE)>>, NoRawBody)>>,
                <<"put", RawOperation("updatePet", <<"pets">>,
                          <<Param("Authorization", "header", FALSE)>>,
                          RawBody(FALSE))>> >>)>>,
        <<"/pets",
          PathItem(<<>>,
             << <<"post", RawOperation("", <<"pets">>,
                           <<Param("X-API-Key", "header", FALSE)>>,
                           RawBody(TRUE))>> >>)>> >>]

\* the document behind "routes.yaml": a template that names its parameter twice, an
\* operation with query parameters, and a path key without leading slash
RoutesDoc ==
    [valid |-> TRUE,
     servers |-> <<"https://routes.io/v1/">>,
     paths |-> <<
        <<"/pets/{petId}/links/{petId}",
          PathItem(<<>>,
             << <<"get", RawOperation("getPetLink", <<>>,
                          <<Param("petId", "path", TRUE)>>, NoRawBody)>> >>)>>,
        <<"/pets/{petId}",
          PathItem(<<Param("petId", "path", TRUE)>>,
             << <<"get", RawOperation("findPet", <<>>,
                          <<Param("status", "query", FALSE),
                            Param("limit", "query", FALSE)>>, NoRawBody)>> >>)>>,
        <<"health",
          PathItem(<<>>,
             << <<"get", RawOperation("health", <<>>, <<>>, NoRawBody)>> >>)>> >>]

\* the document behind "catalog.yaml": eleven operations whose tags interleave, one
\* of them with two tags and two without any, and a DELETE that declares a body
CatalogDoc ==
    [valid |-> TRUE,
     servers |-> <<"https://catalog.io">>,
     paths |-> <<
        <<"/users",
          PathItem(<<>>,
             << <<"post", RawOperation("createUser", <<"Users", "Admin">>, <<>>,
                                       NoRawBody)>>,
                <<"get", RawOperation("listUsers", <<"Users">>, <<>>, NoRawBody)>> >>)>>,
        <<"/orders",
          PathItem(<<>>,
             << <<"get", RawOperation("listOrders", <<"Orders">>, <<>>, NoRawBody)>>,
                <<"delete", RawOperation("clearOrders", <<"Orders">>, <<>>,
                                         RawBody(FALSE))>> >>)>>,
        <<"/users/me",
          PathItem(<<>>,
             << <<"get", RawOperation("getMe", <<"user-admin">>, <<>>, NoRawBody)>>,
                <<"put", RawOperation("putMe", <<"Users">>, <<>>, NoRawBody)>>,
                <<"patch", RawOperation("patchMe", <<"Users">>, <<>>,
                                        NoRawBody)>> >>)>>,
        <<"/health",
          PathItem(<<>>,
             << <<"get", RawOperation("health", <<>>, <<>>, NoRawBody)>> >>)>>,
        <<"/orders/last",
          PathItem(<<>>,
             << <<"get", RawOperation("lastOrder", <<"Orders">>, <<>>, NoRawBody)>>,
                <<"post", RawOperation("", <<"orders-admin">>, <<>>,
                                       NoRawBody)>> >>)>>,
        <<"/ping",
          PathItem(<<>>,
             << <<"head", RawOperation("ping", <<>>, <<>>, NoRawBody)>> >>)>> >>]

\* a document with one operation and no parameters, served at baseUrl
PingDoc(baseUrl) ==
    [valid |-> TRUE, servers |-> <<baseUrl>>,
     paths |-> << <<"/ping", PathItem(<<>>,
                     << <<"get", RawOperation("ping", <<>>, <<>>, NoRawBody)>> >>)>> >>]

InvalidDoc == [valid |-> FALSE, servers |-> <<>>, paths |-> <<>>]

\* base URLs init_api is called with, and the spec paths given with them
BaseUrls == {"https://a.io", "https://b.io"}

OpenApiPaths == {"", "https://a.io/openapi.json"}

\* the api sources manage_auth and call_api are called with in the store model
StoreSources ==
    {"https://a.io", "https://b.io", "https://a.io/openapi.json",
     "https://a.io/v2/openapi.json"}

ApiSources ==
    StoreSources \cup {"petstore.yaml", "broken.yaml", "routes.yaml", "catalog.yaml"}

\* what the document source resolution supplies for a docs_path
Documents(docs_path) ==
    CASE docs_path = "petstore.yaml" -> PetstoreDoc
      [] docs_path = "broken.yaml" -> InvalidDoc
      [] docs_path = "routes.yaml" -> RoutesDoc
      [] docs_path = "catalog.yaml" -> CatalogDoc
      [] docs_path = "https://b.io" -> PingDoc("https://b.io")
      [] OTHER -> PingDoc("https://a.io")

Bearer(token) == [type |-> "bearer", config |-> << <<"token", token>> >>]

\* the descriptors manage_auth is called with in the store model
StoreAuthConfigs == {Bearer("t1"), Bearer("t2"), [type |-> "bearer", config |-> <<>>]}

\* inline auth_config records of call_api, one complete and one incomplete per kind
InlineAuthConfigs ==
    { << <<"type", "bearer">>, <<"token", "abc">> >>,
      << <<"type", "bearer">> >>,
      << <<"type", "apiKey">>, <<"headerName", "X-API-Key">>, <<"apiKey", "secret">> >>,
      << <<"type", "apiKey">>, <<"headerName", "Authorization">>, <<"apiKey", "secret">> >>,
      << <<"type", "apiKey">>, <<"headerName", "Accept">>, <<"apiKey", "secret">> >>,
      << <<"type", "apiKey">>, <<"apiKey", "secret">> >>,
      << <<"type", "basic">>, <<"username", "u">>, <<"password", "p">> >>,
      << <<"type", "basic">>, <<"username", "u">> >>,
      << <<"type", "oauth2">>, <<"accessToken", "tok">> >>,
      << <<"type", "oauth2">> >> }

\* the values a caller may give each parameter key; <<>> leaves the key out
Choices(key) ==
    CASE key = "petId" -> {<<>>, <<Num("7")>>}
      [] key = "Authorization" -> {<<>>, <<Str("Custom")>>}
      [] key = "X-API-Key" -> {<<>>, <<Str("caller-key")>>}
      [] key = "body" -> {<<>>, <<Obj(<< <<"name", "\"Rex\"">> >>)>>, <<Str("raw")>>,
                          <<Str("")>>}
      [] key = "body_name" -> {<<>>, <<Str("Fluffy")>>}
      [] OTHER -> {<<>>}

ParameterKeys == <<"petId", "Authorization", "X-API-Key", "body", "body_name">>

\* every parameters object over ParameterKeys, keys in that order
RECURSIVE ParameterBags(_)
ParameterBags(i) ==
    IF i > Len(ParameterKeys) THEN {<<>>}
    ELSE {(IF Len(v) = 0 THEN <<>> ELSE << <<ParameterKeys[i], v[1]>> >>) \o rest :
             v \in Choices(ParameterKeys[i]), rest \in ParameterBags(i + 1)}

\* the call_api invocations of the request model
RequestCalls ==
    {[docs_path |-> d, operation_id |-> o, hasParameters |-> TRUE, parameters |-> b,
      hasAuthConfig |-> Len(a) > 0, auth_config |-> a, base_url |-> ""] :
        d \in {"petstore.yaml"}, o \in {"getPet", "updatePet", "post__pets"},
        b \in ParameterBags(1), a \in InlineAuthConfigs \cup {<<>>}}
    \cup
    {[docs_path |-> d, operation_id |-> o, hasParameters |-> FALSE, parameters |-> <<>>,
      hasAuthConfig |-> FALSE, auth_config |-> <<>>, base_url |-> u] :
        d \in {"petstore.yaml", "broken.yaml", "catalog.yaml"},
        o \in {"getPet", "post__pets", "clearOrders", "nope"},
        u \in {"", "https://override.io"}}

\* the values a caller may give each key in the URL model; <<>> leaves the key out
UrlChoices(key) ==
    CASE key = "petId" -> {<<>>, <<Num("7")>>, <<Str("a b")>>}
      [] key = "limit" -> {<<>>, <<Num("10")>>, <<Str("")>>}
      [] key = "status" -> {<<>>, <<Str("sold")>>, <<Null>>}
      [] key = "page" -> {<<>>, <<Num("2")>>}
      [] OTHER -> {<<>>}

\* the caller's key order differs from the declared order (status, limit)
UrlKeys == <<"limit", "page", "petId", "status">>

RECURSIVE UrlBags(_)
UrlBags(i) ==
    IF i > Len(UrlKeys) THEN {<<>>}
    ELSE {(IF Len(v) = 0 THEN <<>> ELSE << <<UrlKeys[i], v[1]>> >>) \o rest :
             v \in UrlChoices(UrlKeys[i]), rest \in UrlBags(i + 1)}

\* base_url overrides: none, without, with one and with two trailing slashes
BaseUrlOverrides == {"", "https://api.io", "https://api.io/", "https://api.io//"}

\* the call_api invocations of the URL model
UrlCalls ==
    {[docs_path |-> "routes.yaml", operation_id |-> o, hasParameters |-> TRUE,
      parameters |-> b, hasAuthConfig |-> FALSE, auth_config |-> <<>>, base_url |-> u] :
        o \in {"getPetLink", "findPet", "health"}, b \in UrlBags(1),
        u \in BaseUrlOverrides}

\* the call_api invocations of the store model: the one operation of the source's document
StoreCalls ==
    {[docs_path |-> d, operation_id |-> "ping", hasParameters |-> FALSE,
      parameters |-> <<>>, hasAuthConfig |-> FALSE, auth_config |-> <<>>,
      base_url |-> ""] : d \in StoreSources}

\* the HTTP responses the remote API gives in the store model
JsonBody(text) == [text |-> text, json |-> TRUE]

Responses ==
    {[status |-> 200, statusText |-> "OK", contentType |-> "application/json",
      body |-> JsonBody("{\"ok\":true}")],
     [status |-> 404, statusText |-> "Not Found", contentType |-> "application/json",
      body |-> JsonBody("{\"error\":\"no such pet\"}")]}

\* the HTTP responses of the request model: both ends of 2xx, the status above it,
\* the other classes, and bodies that are JSON, text and broken JSON
RequestResponses ==
    Responses \cup
    {[status |-> 400, statusText |-> "Bad Request", contentType |-> "",
      body |-> [text |-> "", json |-> FALSE]],
     [status |-> 204, statusText |-> "No Content", contentType |-> "",
      body |-> [text |-> "", json |-> FALSE]],
     [status |-> 299, statusText |-> "Custom", contentType |-> "text/plain",
      body |-> [text |-> "fine", json |-> FALSE]],
     [status |-> 300, statusText |-> "Multiple Choices", contentType |-> "text/html",
      body |-> [text |-> "<a>", json |-> FALSE]],
     [status |-> 302, statusText |-> "Found", contentType |-> "",
      body |-> [text |-> "", json |-> FALSE]],
     [status |-> 500, statusText |-> "Internal Server Error",
      contentType |-> "application/json; charset=utf-8",
      body |-> [text |-> "<html>", json |-> FALSE]]}

\* what fetch rejects with
ConnectionRefused ==
    [thrown |-> TRUE, isError |-> TRUE, message |-> "connect ECONNREFUSED 127.0.0.1:443"]

FetchErrors ==
    {ConnectionRefused,
     [thrown |-> TRUE, isError |-> TRUE, message |-> "getaddrinfo ENOTFOUND petstore.io"],
     [thrown |-> TRUE, isError |-> TRUE, message |-> "connect ETIMEDOUT 10.0.0.1:443"],
     [thrown |-> TRUE, isError |-> TRUE, message |-> "Invalid URL"],
     [thrown |-> TRUE, isError |-> FALSE, message |-> ""]}

NoHist == [phase |-> "none", src |-> "", quiescent |-> FALSE,
           before |-> [k \in ApiSources |-> NoAuth], authConfig |-> NoAuth,
           errors |-> <<>>]

\* no SessionManager method has been called directly
NoRet == [op |-> "", arg |-> "", threw |-> FALSE, value |-> FALSE, wrote |-> FALSE]

-----------------------------------------------------------------------------
(* The process: start-up, the tools, the asynchronous load, restart        *)

NoDocument == [valid |-> FALSE, servers |-> <<>>, paths |-> <<>>]

\* the process has started on an absent session file; no tool has run
Init ==
    /\ sessionFile = NoFile
    /\ storage = loadSessions(NoFile)
    /\ httpClientInstance = FALSE
    /\ authConfigs = [k \in ApiSources |-> NoAuth]
    /\ pendingLoads = 0
    /\ call = IdleCall
    /\ spec = NoDocument
    /\ apiInfo = NullApiInfo
    /\ now = 1
    /\ hist = NoHist
    /\ ret = NoRet

NoTool == call.pc = "idle"

\* getHttpClient(): the first use constructs the client, whose constructor starts
\* the asynchronous load
ClientLoads == IF httpClientInstance THEN 0 ELSE 1

\* callApi up to its first await (the parse of the document)
CallApi(params) ==
    /\ NoTool
    /\ pendingLoads + ClientLoads <= MaxPending
    /\ httpClientInstance' = TRUE
    /\ pendingLoads' = pendingLoads + ClientLoads
    /\ call' = [IdleCall EXCEPT !.pc = "parsing", !.params = params]
    /\ hist' = IF hist.phase = "restarted" THEN hist ELSE NoHist
    /\ UNCHANGED <<ret, storage, sessionFile, authConfigs, spec, apiInfo, now>>

\* the parse returns: callApi runs on to the fetch or to its return
CallApiParsed ==
    /\ call.pc = "parsing"
    /\ call' = afterParse(call, parseOpenApi(Documents(call.params.docs_path),
                                             call.params.docs_path), authConfigs)
    /\ UNCHANGED <<ret, storage, sessionFile, httpClientInstance, authConfigs, pendingLoads,
                   spec, apiInfo, now, hist>>

\* the fetch resolves with a response: processResponse, then callApi returns
FetchResolves(response) ==
    /\ call.pc = "fetching"
    /\ call' = [call EXCEPT !.pc = "done", !.outcome = "called",
                            !.response = <<response>>,
                            !.results = @ + 1,
                            !.result = processResponse(response)]
    /\ UNCHANGED <<ret, storage, sessionFile, httpClientInstance, authConfigs, pendingLoads,
                   spec, apiInfo, now, hist>>

\* a slip that issues the request once more after the first rejection
FetchRejectsAndRetries(error) ==
    /\ call.pc = "fetching"
    /\ call' = IF call.requests < 2
               THEN [call EXCEPT !.requests = @ + 1, !.rejection = error]
               ELSE [call EXCEPT !.pc = "done", !.outcome = "called",
                                 !.rejection = error,
                                 !.results = @ + 1,
                                 !.result = transportFailure(error)]
    /\ UNCHANGED <<ret, storage, sessionFile, httpClientInstance, authConfigs, pendingLoads,
                   spec, apiInfo, now, hist>>

\* the fetch rejects (DNS, refused or timed-out connection): the catch block of
\* callOperation
FetchRejects(error) ==
    /\ call.pc = "fetching"
    /\ call' = [call EXCEPT !.pc = "done", !.outcome = "called",
                            !.rejection = error,
                            !.results = @ + 1,
                            !.result = transportFailure(error)]
    /\ UNCHANGED <<ret, storage, sessionFile, httpClientInstance, authConfigs, pendingLoads,
                   spec, apiInfo, now, hist>>

\* list_operations: the parse, the filters and the response text
ListOperations(params) ==
    /\ NoTool
    /\ ret' = [op |-> "list_operations", arg |-> params.docs_path, threw |-> FALSE,
               wrote |-> FALSE,
               value |-> [params |-> params,
                          result |-> listOperations(
                              parseOpenApi(Documents(params.docs_path), params.docs_path),
                              params)]]
    /\ UNCHANGED <<storage, sessionFile, httpClientInstance, authConfigs, pendingLoads,
                   call, spec, apiInfo, now, hist>>

\* callApi has returned its result to the dispatcher
CallApiReturns ==
    /\ call.pc = "done"
    /\ call' = IdleCall
    /\ UNCHANGED <<ret, storage, sessionFile, httpClientInstance, authConfigs, pendingLoads,
                   spec, apiInfo, now, hist>>

\* the callback of one loadAuthFromSessions runs
LoadAuthFromSessions ==
    /\ pendingLoads > 0
    /\ pendingLoads' = pendingLoads - 1
    /\ authConfigs' = loadAuthFromSessions(authConfigs, storage)
    /\ hist' = IF hist.phase = "reloading" /\ pendingLoads = 1
               THEN [hist EXCEPT !.phase = "settled"] ELSE hist
    /\ UNCHANGED <<ret, storage, sessionFile, httpClientInstance, call, spec, apiInfo, now>>

\* init_api: activate the session of this base URL, or create one
InitApi(base_url, openapi_path) ==
    /\ NoTool
    /\ now < MaxClock
    /\ now' = now + 1
    /\ storage' =
         IF HasSessionByBaseUrl(storage, base_url)
         THEN setActiveSession(storage, getSessionByBaseUrl(storage, base_url).id, now)
         ELSE LET created == createSession(storage, base_url, now)
              IN IF openapi_path # ""
                 THEN updateSession(created, created.activeSessionId, openapi_path, now)
                 ELSE created
    /\ sessionFile' = writeSessions(sessionFile, storage')
    /\ hist' = [NoHist EXCEPT !.phase = "initialized", !.src = base_url]
    /\ UNCHANGED <<ret, httpClientInstance, authConfigs, pendingLoads, call, spec, apiInfo>>

\* manage_session action="activate"
ActivateSession(sessionId) ==
    /\ NoTool
    /\ now < MaxClock
    /\ Has(storage.sessions, sessionId)
    /\ now' = now + 1
    /\ storage' = setActiveSession(storage, sessionId, now)
    /\ sessionFile' = writeSessions(sessionFile, storage')
    /\ hist' = NoHist
    /\ UNCHANGED <<ret, httpClientInstance, authConfigs, pendingLoads, call, spec, apiInfo>>

\* manage_session action="delete"
DeleteSession(sessionId) ==
    /\ NoTool
    /\ Has(storage.sessions, sessionId)
    /\ storage' = deleteSession(storage, sessionId)
    /\ sessionFile' = writeSessions(sessionFile, storage')
    /\ hist' = NoHist
    /\ UNCHANGED <<ret, httpClientInstance, authConfigs, pendingLoads, call, spec, apiInfo,
                   now>>

\* manage_auth
ManageAuth(docs_path, authConfig) ==
    LET valid == Len(validationErrors(authConfig)) = 0
        matched == valid /\ HasMatchingSession(storage, docs_path)
        loads == ClientLoads + (IF matched THEN 1 ELSE 0)
    IN /\ NoTool
       /\ now < MaxClock
       /\ pendingLoads + loads <= MaxPending
       /\ now' = now + 1
       /\ httpClientInstance' = TRUE
       /\ pendingLoads' = pendingLoads + loads
       /\ authConfigs' = IF valid
                         THEN setClientAuthConfig(authConfigs, docs_path, authConfig)
                         ELSE authConfigs
       /\ storage' = IF matched
                     THEN setAuthConfig(storage, matchingSession(storage, docs_path).id,
                                        authConfig, now)
                     ELSE storage
       /\ sessionFile' = IF matched THEN writeSessions(sessionFile, storage') ELSE sessionFile
       /\ hist' = IF valid
                  THEN [phase |-> IF loads > 0 THEN "reloading" ELSE "settled",
                        src |-> docs_path,
                        quiescent |-> pendingLoads = 0 /\ httpClientInstance,
                        before |-> authConfigs, authConfig |-> authConfig,
                        errors |-> <<>>]
                  ELSE [phase |-> "rejected", src |-> docs_path,
                        quiescent |-> pendingLoads = 0 /\ httpClientInstance,
                        before |-> authConfigs, authConfig |-> authConfig,
                        errors |-> validationErrors(authConfig)]
       /\ UNCHANGED <<ret, call, spec, apiInfo>>

\* the process is stopped and started again: memory is rebuilt from the file
Restart ==
    /\ storage' = loadSessions(sessionFile)
    /\ httpClientInstance' = FALSE
    /\ authConfigs' = [k \in ApiSources |-> NoAuth]
    /\ pendingLoads' = 0
    /\ call' = IdleCall
    /\ hist' = IF hist.phase \in {"reloading", "settled"}
               THEN [hist EXCEPT !.phase = "restarted", !.before = authConfigs,
                                 !.quiescent = hist.phase = "settled"]
               ELSE NoHist
    /\ UNCHANGED <<ret, sessionFile, spec, apiInfo, now>>

SessionIds == {storage.sessions[i][1] : i \in 1..Len(storage.sessions)}

Next ==
    \/ \E base_url \in BaseUrls, openapi_path \in OpenApiPaths :
           InitApi(base_url, openapi_path)
    \/ \E sessionId \in SessionIds : ActivateSession(sessionId)
    \/ \E sessionId \in SessionIds : DeleteSession(sessionId)
    \/ \E docs_path \in StoreSources, authConfig \in StoreAuthConfigs :
           ManageAuth(docs_path, authConfig)
    \/ \E params \in StoreCalls : CallApi(params)
    \/ CallApiParsed
    \/ \E response \in Responses : FetchResolves(response)
    \/ FetchRejects(ConnectionRefused)
    \/ CallApiReturns
    \/ LoadAuthFromSessions
    \/ Restart

Spec == Init /\ [][Next]_vars

NextRequest ==
    \/ \E params \in RequestCalls : CallApi(params)
    \/ CallApiParsed
    \/ \E response \in RequestResponses : FetchResolves(response)
    \/ \E error \in FetchErrors : FetchRejects(error)
    \/ CallApiReturns
    \/ LoadAuthFromSessions

SpecRequest == Init /\ [][NextRequest]_vars

NextUrl ==
    \/ \E params \in UrlCalls : CallApi(params)
    \/ CallApiParsed
    \/ \E response \in Responses : FetchResolves(response)
    \/ FetchRejects(ConnectionRefused)
    \/ CallApiReturns
    \/ LoadAuthFromSessions

SpecUrl == Init /\ [][NextUrl]_vars

\* the listing model: list_operations with and without each filter, in several
\* letter cases, on a document with tags, one without and one that does not parse
SpecList ==
    Init /\ [][\E docs_path \in {"catalog.yaml", "petstore.yaml", "broken.yaml"},
                  tag \in {<<>>, <<"">>, <<"user">>, <<"USERS">>, <<"Orders">>,
                           <<"admin">>, <<"pets">>, <<"order-">>},
                  method \in {<<>>, <<"">>, <<"get">>, <<"GET">>, <<"Post">>,
                              <<"ge">>, <<"delete">>} :
                ListOperations([docs_path |-> docs_path,
                    hasTag |-> Len(tag) > 0,
                    tag |-> IF Len(tag) > 0 THEN tag[1] ELSE "",
                    hasMethod |-> Len(method) > 0,
                    method |-> IF Len(method) > 0 THEN method[1] ELSE ""])]_vars

-----------------------------------------------------------------------------
(* The SessionManager on its own, on a file system that may hold any file  *)
(* and may refuse writes                                                   *)

\* a session as an earlier run of the program left it in the file
StoredSession ==
    [id |-> generateSessionId("https://a.io", 0), baseUrl |-> "https://a.io",
     openApiPath |-> "https://a.io/openapi.json", authConfig |-> Bearer("t1"),
     lastUsed |-> 0]

\* the session files the constructor may find
SessionFiles ==
    {[f EXCEPT !.writable = w] :
        f \in {NoFile,
               saveSessions(EmptyStorage),
               saveSessions([EmptyStorage EXCEPT
                                !.sessions = << <<StoredSession.id, StoredSession>> >>,
                                !.activeSessionId = StoredSession.id]),
               [NoFile EXCEPT !.exists = TRUE, !.content = "garbage"],
               [NoFile EXCEPT !.exists = TRUE, !.content = "json"]},
        w \in BOOLEAN}

\* the session ids the methods are called with: the stored ones and an unknown one
CalledSessionIds == SessionIds \cup {"session_unknown"}

\* new SessionManager(): loadSessions on whatever file is there
InitStore ==
    /\ sessionFile \in SessionFiles
    /\ storage = loadSessions(sessionFile)
    /\ httpClientInstance = FALSE
    /\ authConfigs = [k \in ApiSources |-> NoAuth]
    /\ pendingLoads = 0
    /\ call = IdleCall
    /\ spec = NoDocument
    /\ apiInfo = NullApiInfo
    /\ now = 1
    /\ hist = NoHist
    /\ ret = [NoRet EXCEPT !.op = "constructor", !.value = TRUE]

\* a method that reads this.storage.sessions of a storage without sessions throws a
\* TypeError before it changes anything; otherwise the method runs, and a mutating
\* one that found its session saves
MethodCall(op, arg, st, found, t) ==
    IF ~storage.hasSessions
    THEN /\ ret' = [op |-> op, arg |-> arg, threw |-> TRUE, value |-> FALSE,
                    wrote |-> FALSE]
         /\ UNCHANGED <<storage, sessionFile, now>>
    ELSE /\ ret' = [op |-> op, arg |-> arg, threw |-> FALSE, value |-> found,
                    wrote |-> found /\ sessionFile.writable]
         /\ storage' = st
         /\ sessionFile' = IF found THEN writeSessions(sessionFile, st) ELSE sessionFile
         /\ now' = t

CreateSessionCall(baseUrl) ==
    /\ now < MaxClock
    /\ MethodCall("createSession", baseUrl, createSession(storage, baseUrl, now), TRUE, now + 1)
    /\ UNCHANGED <<httpClientInstance, authConfigs, pendingLoads, call, spec, apiInfo,
                   hist>>

UpdateSessionCall(sessionId, openApiPath) ==
    /\ now < MaxClock
    /\ MethodCall("updateSession", sessionId,
                  updateSession(storage, sessionId, openApiPath, now),
                  Has(storage.sessions, sessionId), now + 1)
    /\ UNCHANGED <<httpClientInstance, authConfigs, pendingLoads, call, spec, apiInfo,
                   hist>>

SetActiveSessionCall(sessionId) ==
    /\ now < MaxClock
    /\ MethodCall("setActiveSession", sessionId,
                  setActiveSession(storage, sessionId, now),
                  Has(storage.sessions, sessionId), now + 1)
    /\ UNCHANGED <<httpClientInstance, authConfigs, pendingLoads, call, spec, apiInfo,
                   hist>>

DeleteSessionCall(sessionId) ==
    /\ MethodCall("deleteSession", sessionId, deleteSession(storage, sessionId),
                  Has(storage.sessions, sessionId), now)
    /\ UNCHANGED <<httpClientInstance, authConfigs, pendingLoads, call, spec, apiInfo,
                   hist>>

SetAuthConfigCall(sessionId, authConfig) ==
    /\ now < MaxClock
    /\ MethodCall("setAuthConfig", sessionId,
                  setAuthConfig(storage, sessionId, authConfig, now),
                  Has(storage.sessions, sessionId), now + 1)
    /\ UNCHANGED <<httpClientInstance, authConfigs, pendingLoads, call, spec, apiInfo,
                   hist>>

\* listSessions(): a read; Object.values(undefined) throws
ListSessionsCall ==
    /\ ret' = [op |-> "listSessions", arg |-> "", threw |-> ~storage.hasSessions,
               value |-> storage.hasSessions, wrote |-> FALSE]
    /\ UNCHANGED <<storage, sessionFile, httpClientInstance, authConfigs, pendingLoads,
                   call, spec, apiInfo, now, hist>>

\* the file's permissions change, or the disk fills up or is freed
DiskChanges ==
    /\ sessionFile' = [sessionFile EXCEPT !.writable = ~@]
    /\ UNCHANGED <<ret, storage, httpClientInstance, authConfigs, pendingLoads, call, spec,
                   apiInfo, now, hist>>

NextStore ==
    \/ \E baseUrl \in BaseUrls : CreateSessionCall(baseUrl)
    \/ \E sessionId \in CalledSessionIds, openApiPath \in OpenApiPaths \ {""} :
           UpdateSessionCall(sessionId, openApiPath)
    \/ \E sessionId \in CalledSessionIds : SetActiveSessionCall(sessionId)
    \/ \E sessionId \in CalledSessionIds : DeleteSessionCall(sessionId)
    \/ \E sessionId \in CalledSessionIds, authConfig \in {Bearer("t1"), Bearer("t2")} :
           SetAuthConfigCall(sessionId, authConfig)
    \/ ListSessionsCall
    \/ DiskChanges

SpecStore == InitStore /\ [][NextStore]_vars

-----------------------------------------------------------------------------
(* call_api with inline auth_config, next to manage_auth for the same source *)

\* getPet called with its required parameters, with and without inline auth_config
OverrideCalls ==
    {[docs_path |-> "petstore.yaml", operation_id |-> "getPet", hasParameters |-> TRUE,
      parameters |-> << <<"petId", Num("7")>>, <<"Authorization", Str("Custom")>> >>,
      hasAuthConfig |-> Len(a) > 0, auth_config |-> a, base_url |-> ""] :
        a \in {<<>>,
               << <<"type", "bearer">>, <<"token", "abc">> >>,
               << <<"type", "apiKey">>, <<"headerName", "X-API-Key">>,
                  <<"apiKey", "secret">> >>}}

NextOverride ==
    \/ \E authConfig \in StoreAuthConfigs : ManageAuth("petstore.yaml", authConfig)
    \/ \E params \in OverrideCalls : CallApi(params)
    \/ CallApiParsed
    \/ \E response \in Responses : FetchResolves(response)
    \/ FetchRejects(ConnectionRefused)
    \/ CallApiReturns
    \/ LoadAuthFromSessions

SpecOverride == Init /\ [][NextOverride]_vars

\* manage_auth on its own, over descriptors of every kind, complete and incomplete
ManageAuthConfigs ==
    {[type |-> GetOr(a, "type", ""),
      config |-> SelectSeq(a, LAMBDA e : e[1] # "type")] : a \in InlineAuthConfigs}
    \cup {[type |-> "apiKey", config |-> <<>>], [type |-> "basic", config |-> <<>>],
          [type |-> "basic", config |-> << <<"password", "p">> >>],
          [type |-> "bearer", config |-> << <<"token", "">> >>]}

\* one source that is a session's base URL and one that matches it by substring only
AuthSources == {"https://a.io", "https://a.io/v2/openapi.json"}

NextAuth ==
    \/ \E openapi_path \in OpenApiPaths : InitApi("https://a.io", openapi_path)
    \/ \E docs_path \in AuthSources, authConfig \in ManageAuthConfigs :
           ManageAuth(docs_path, authConfig)
    \/ LoadAuthFromSessions

SpecAuth == Init /\ [][NextAuth]_vars

-----------------------------------------------------------------------------
(* The normalizer on its own: a document is drawn, then normalized         *)

MaxPaths == 2

NormPaths == {"/a/b", "/a_b", "/pets"}

NormPathParameters == {<<>>, <<Param("id", "query", FALSE)>>}

NormGetOperations ==
    {RawOperation(id, <<>>, ps, NoRawBody) :
        id \in {"", "getA"}, ps \in {<<>>, <<Param("id", "query", TRUE)>>}}

NormPostOperations == {RawOperation("", <<>>, <<>>, RawBody(TRUE))}

NormPathItems ==
    {PathItem(pp, g \o po) :
        pp \in NormPathParameters,
        g \in {<<>>} \cup {<< <<"get", op>> >> : op \in NormGetOperations},
        po \in {<<>>} \cup {<< <<"post", op>> >> : op \in NormPostOperations}}

\* the paths objects of up to n path items, no path twice (an object's keys)
RECURSIVE NormPathsObjects(_)
NormPathsObjects(n) ==
    IF n = 0 THEN {<<>>}
    ELSE LET shorter == NormPathsObjects(n - 1)
         IN shorter \cup
            {Append(ps, <<path, item>>) :
                ps \in {q \in shorter : Len(q) = n - 1},
                path \in NormPaths, item \in NormPathItems}

\* the operationIds a document declares itself
DeclaredIds(paths) ==
    {<<i, j>> \in (1..Len(paths)) \X (1..2) :
        /\ j <= Len(paths[i][2].ops)
        /\ paths[i][2].ops[j][2].operationId # ""}

\* an OpenAPI document: no path twice, no operationId declared twice
ValidPaths(paths) ==
    /\ \A i, k \in 1..Len(paths) : i # k => paths[i][1] # paths[k][1]
    /\ \A x, y \in DeclaredIds(paths) :
           x # y => paths[x[1]][2].ops[x[2]][2].operationId
                    # paths[y[1]][2].ops[y[2]][2].operationId

NormDocuments ==
    {[valid |-> TRUE, servers |-> <<"https://a.io">>, paths |-> ps] :
        ps \in {q \in NormPathsObjects(MaxPaths) : ValidPaths(q)}}

InitNormalizer ==
    /\ spec \in NormDocuments
    /\ apiInfo = NullApiInfo
    /\ sessionFile = NoFile
    /\ storage = loadSessions(NoFile)
    /\ httpClientInstance = FALSE
    /\ authConfigs = [k \in ApiSources |-> NoAuth]
    /\ pendingLoads = 0
    /\ call = IdleCall
    /\ now = 1
    /\ hist = NoHist
    /\ ret = NoRet

\* parseOpenApiFile on the document
ParseOpenApiFile ==
    /\ ~apiInfo.parsed
    /\ apiInfo' = parseOpenApi(spec, "openapi.yaml")
    /\ UNCHANGED <<ret, storage, sessionFile, httpClientInstance, authConfigs, pendingLoads,
                   call, spec, now, hist>>

SpecNormalizer == InitNormalizer /\ [][ParseOpenApiFile]_vars

-----------------------------------------------------------------------------
(* Claims about request synthesis and validation (SpecRequest)             *)

\* the invocation has issued its HTTP request
Issued == call.requests > 0

\* the invocation found its operation and ran the validation
Validated == call.operation # NoOperation

CallerValue(key) == GetOr(call.params.parameters, key, Undefined)

\* the caller gave a value for a header parameter the operation declares under name
CallerSetsHeader(name) ==
    /\ CallerValue(name) # Undefined
    /\ \E i \in 1..Len(call.operation.parameters) :
           /\ call.operation.parameters[i].in = "header"
           /\ call.operation.parameters[i].name = name

\* the descriptor carries the sub-fields its kind requires
CompleteAuth(a) ==
    CASE a.type = "apiKey" -> Field(a, "headerName") # "" /\ Field(a, "apiKey") # ""
      [] a.type = "bearer" -> Field(a, "token") # ""
      [] a.type = "basic" -> Field(a, "username") # "" /\ Field(a, "password") # ""
      [] a.type = "oauth2" -> Field(a, "accessToken") # ""
      [] OTHER -> FALSE

\* the header a descriptor's kind authenticates with, and the value it must carry
AuthHeaderName(a) == IF a.type = "apiKey" THEN Field(a, "headerName") ELSE "Authorization"

AuthHeaderValue(a) ==
    CASE a.type = "apiKey" -> Field(a, "apiKey")
      [] a.type = "bearer" -> "Bearer " \o Field(a, "token")
      [] a.type = "basic" ->
           "Basic " \o Base64(Field(a, "username") \o ":" \o Field(a, "password"))
      [] OTHER -> "Bearer " \o Field(a, "accessToken")

\* C1: whenever a request is synthesized with an auth descriptor (of any kind,
\* carrying its kind's fields) and a caller header parameter or a default header
\* targets the descriptor's header name, the request carries the auth value there.
C1_AuthPrecedence ==
    (/\ Issued
     /\ CompleteAuth(call.authConfig)
     /\ \/ CallerSetsHeader(AuthHeaderName(call.authConfig))
        \/ Has(DefaultHeaders, AuthHeaderName(call.authConfig)))
    => GetOr(call.request.headers, AuthHeaderName(call.authConfig), "")
         = AuthHeaderValue(call.authConfig)

\* C1 witness: caller header Authorization: Custom, bearer token abc, and the request
\* carries Authorization: Bearer abc
C1_Witness ==
    /\ Issued
    /\ call.authConfig.type = "bearer"
    /\ Field(call.authConfig, "token") = "abc"
    /\ CallerSetsHeader("Authorization")
    /\ CallerValue("Authorization") = Str("Custom")
    /\ GetOr(call.request.headers, "Authorization", "") = "Bearer abc"

\* the caller supplied the body in one of its two forms
BodyObjectGiven ==
    /\ call.params.hasParameters
    /\ CallerValue("body").t = "object"

BodyKeysGiven ==
    /\ call.params.hasParameters
    /\ \E i \in 1..Len(call.params.parameters) :
           StartsWith(call.params.parameters[i][1], "body_")

BodyReportedMissing ==
    \E i \in 1..Len(call.missingParams) : call.missingParams[i] = "body (request body)"

\* C5: for an operation whose request body is required, validation treats the body
\* as supplied, and does not report it missing, when the caller parameters hold a
\* body object or at least one body_ key.
C5_RequiredBodyBothForms ==
    (Validated /\ call.operation.requestBody.required /\ (BodyObjectGiven \/ BodyKeysGiven))
    => ~BodyReportedMissing

\* C6: a request with a body, built from caller parameters holding a body object,
\* carries the JSON serialization of exactly that object.
C6_VerbatimBody ==
    (Issued /\ call.request.hasBody /\ BodyObjectGiven)
    => call.request.body = Stringify(CallerValue("body"))

\* the caller parameters hold neither a body key nor a body_ key
BodyAbsent ==
    /\ ~Has(call.params.parameters, "body")
    /\ ~BodyKeysGiven

\* the items the operation requires and the caller left out, as validation names them
MissingItems ==
    {call.operation.parameters[i].name \o " (" \o call.operation.parameters[i].in \o ")" :
        i \in {j \in 1..Len(call.operation.parameters) :
                 /\ call.operation.parameters[j].required
                 /\ \/ ~call.params.hasParameters
                    \/ CallerValue(call.operation.parameters[j].name) = Undefined}}
    \cup (IF call.operation.requestBody.required /\ BodyAbsent
          THEN {"body (request body)"} ELSE {})

C8_NoRequestOnStructuralFailure ==
    /\ call.outcome \in {"parse_failed", "missing_parameters"} => ~Issued
    /\ Issued => Validated /\ Len(missingParams(call.operation, call.params)) = 0

\* C8 witness: a validation failure has been returned and no request was issued
C8_Witness ==
    /\ call.pc = "done"
    /\ call.outcome = "missing_parameters"
    /\ ~Issued

-----------------------------------------------------------------------------
(* Claims about the normalizer (SpecNormalizer)                            *)

\* the (path, method) combinations the document declares
DeclaredOperations ==
    {<<spec.paths[i][1], ToUpperCase(spec.paths[i][2].ops[j][1])>> :
        <<i, j>> \in {x \in (1..Len(spec.paths)) \X (1..Len(methods)) :
                         x[2] <= Len(spec.paths[x[1]][2].ops)}}

\* the raw path item and operation an operation descriptor came from
RawPathItem(op) ==
    spec.paths[CHOOSE i \in 1..Len(spec.paths) : spec.paths[i][1] = op.path][2]

RawOperationOf(op) ==
    LET ops == RawPathItem(op).ops
    IN ops[CHOOSE j \in 1..Len(ops) : ToUpperCase(ops[j][1]) = op.method][2]

SameParameter(p, q) == p.name = q.name /\ p.in = q.in

\* C9: an operation's parameter list is the path-item parameters followed by the
\* operation's own, and of two entries with the same (name, location) only the
\* operation-level one is in the list.
C9_ParameterMergeOverride ==
    apiInfo.parsed =>
      \A n \in 1..Len(apiInfo.operations) :
        LET op == apiInfo.operations[n]
            own == RawOperationOf(op).parameters
            inherited == SelectSeq(RawPathItem(op).parameters,
                            LAMBDA p : ~\E i \in 1..Len(own) : SameParameter(own[i], p))
            merged == inherited \o own
        IN /\ Len(op.parameters) = Len(merged)
           /\ \A i \in 1..Len(merged) : SameParameter(op.parameters[i], merged[i])
           /\ \A i, k \in 1..Len(op.parameters) :
                  i # k => ~SameParameter(op.parameters[i], op.parameters[k])

\* C10: the normalized document has exactly one operation descriptor per declared
\* (path, method) combination, and their operationIds are pairwise distinct.
C10_OperationIdentity ==
    apiInfo.parsed =>
      /\ Len(apiInfo.operations) = Cardinality(DeclaredOperations)
      /\ {<<apiInfo.operations[n].path, apiInfo.operations[n].method>> :
             n \in 1..Len(apiInfo.operations)} = DeclaredOperations
      /\ \A n, m \in 1..Len(apiInfo.operations) :
             n # m => apiInfo.operations[n].operationId # apiInfo.operations[m].operationId

-----------------------------------------------------------------------------
(* Claims about the credential store (Spec)                                *)

\* the descriptors the sessions of a store hold for a source identity, as the load
\* indexes them: those of the sessions that have an auth descriptor and an
\* openApiPath and whose openApiPath or baseUrl is that identity
IndexedAuthFor(st, apiSource) ==
    {st.sessions[i][2].authConfig :
        i \in {j \in 1..Len(st.sessions) :
                 /\ st.sessions[j][2].authConfig # NoAuth
                 /\ st.sessions[j][2].openApiPath # ""
                 /\ \/ st.sessions[j][2].openApiPath = apiSource
                    \/ st.sessions[j][2].baseUrl = apiSource}}

\* a successful manage_auth ran on a loaded, idle credential map and every load it
\* started has completed
ManageAuthSettled == hist.phase = "settled" /\ hist.quiescent

\* C2: a successful manage_auth for source identity A leaves the descriptor resolved
\* for every other identity B as it was before the call.
C2_CredentialIsolation ==
    ManageAuthSettled
    => \A B \in ApiSources \ {hist.src} :
           getAuthConfig(authConfigs, B) = getAuthConfig(hist.before, B)

\* the process restarted after a settled manage_auth, built its client anew and that
\* client's load has completed
RestartedAndLoaded ==
    /\ hist.phase = "restarted"
    /\ hist.quiescent
    /\ httpClientInstance
    /\ pendingLoads = 0

-----------------------------------------------------------------------------
(* Claims about manage_auth's validation (SpecAuth)                        *)

\* the sub-fields an auth kind requires
RequiredFields(type) ==
    CASE type = "apiKey" -> {"headerName", "apiKey"}
      [] type = "bearer" -> {"token"}
      [] type = "basic" -> {"username", "password"}
      [] type = "oauth2" -> {"accessToken"}
      [] OTHER -> {}

\* this step is a manage_auth that returned the configuration error
ManageAuthRejects == hist'.phase = "rejected" /\ now' # now

MissingFields(authConfig) ==
    {f \in RequiredFields(authConfig.type) : Field(authConfig, f) = ""}

\* the rejection names the field
ErrorsName(field) ==
    \E i \in 1..Len(hist.errors) : StartsWith(hist.errors[i], field \o " is required for ")

\* C11: a manage_auth whose config lacks required sub-fields of its kind fails
\* naming every missing field, and changes neither the in-memory credential map
\* nor the session store nor its file; a complete config is not rejected.
C11_InvalidAuthRejected ==
    /\ [](/\ hist.phase = "rejected" =>
               /\ MissingFields(hist.authConfig) # {}
               /\ \A f \in MissingFields(hist.authConfig) : ErrorsName(f)
          /\ hist.phase \in {"reloading", "settled"} => MissingFields(hist.authConfig) = {})
    /\ [][ManageAuthRejects =>
            /\ authConfigs' = authConfigs
            /\ storage' = storage
            /\ sessionFile' = sessionFile]_vars

\* C11 witness: a manage_auth was rejected with two missing fields while a session
\* that matches its source is stored
C11_Witness ==
    /\ hist.phase = "rejected"
    /\ Len(hist.errors) = 2
    /\ HasMatchingSession(storage, hist.src)

-----------------------------------------------------------------------------
(* Claims about the session store's file (SpecStore)                       *)

Mutators == {"createSession", "updateSession", "setActiveSession", "deleteSession",
             "setAuthConfig"}

\* the last method call was a mutator that changed the store and returned
MutatorReturned == ret.op \in Mutators /\ ~ret.threw /\ ret.value

\* C12: after each mutating operation of the session store returns, a store
\* reloaded from the file is identical to the in-memory one.
C12_FlushOnEveryMutation ==
    MutatorReturned => loadSessions(sessionFile) = storage

\* the file the store was constructed from is absent or is not a session store
FileNotAStore == ~sessionFile.exists \/ sessionFile.content # "store"

\* C13: constructing the store on an absent or unloadable file yields the empty
\* store, and no operation on it fails afterwards.
C13_SelfHealingLoad ==
    /\ (ret.op = "constructor" /\ FileNotAStore) => storage = EmptyStorage
    /\ ~ret.threw

-----------------------------------------------------------------------------
(* Claims about inline auth (SpecOverride)                                 *)

\* the descriptor callApi makes of an inline auth_config
InlineAuth(params) ==
    [type |-> GetOr(params.auth_config, "type", ""), config |-> params.auth_config]

\* C14: when call_api is given an inline auth descriptor, the request of that call
\* is built with that descriptor, also when a stored descriptor exists for the source.
C14_InlineAuthOverride ==
    (Issued /\ call.params.hasAuthConfig)
    => /\ call.authConfig = InlineAuth(call.params)
       /\ call.request.headers
            = buildHeaders(call.operation, call.params.parameters, InlineAuth(call.params))

-----------------------------------------------------------------------------
(* Claims about the execution result (SpecRequest)                         *)

\* callOperation has ended for the call in progress
CallOperationEnded == call.pc = "done" /\ call.outcome = "called"

\* C15: whatever building and transport do, callOperation returns an ApiCallResult;
\* when the fetch failed at the network level the result has success false, no
\* statusCode, the failure's description as error, and an executionTime.
C15_ExecutionNeverThrows ==
    CallOperationEnded =>
      /\ call.result.returned
      /\ call.result.hasExecutionTime
      /\ call.rejection.thrown =>
           /\ ~call.result.success
           /\ ~call.result.hasStatusCode
           /\ call.result.error # ""
           /\ call.rejection.isError => call.result.error = call.rejection.message

\* C15 witness: a DNS failure was turned into a failed result
C15_Witness ==
    /\ CallOperationEnded
    /\ call.rejection.thrown
    /\ StartsWith(call.rejection.message, "getaddrinfo ENOTFOUND")
    /\ call.result.error = call.rejection.message

\* C16: for a received response, success is true exactly for a status in 200..299;
\* otherwise error is "HTTP {status}: {statusText}"; in both cases the result has
\* the response's statusCode, headers and parsed data.
C16_SuccessClassification ==
    (CallOperationEnded /\ Len(call.response) = 1) =>
      LET response == call.response[1]
      IN /\ call.result.success <=> response.status \in 200..299
         /\ ~call.result.success =>
              call.result.error
                = "HTTP " \o StatusString(response.status) \o ": " \o response.statusText
         /\ call.result.success => call.result.error = ""
         /\ call.result.hasStatusCode /\ call.result.statusCode = response.status
         /\ call.result.hasHeaders /\ call.result.headers = responseHeaders(response)
         /\ response.body.json /\ Includes(response.contentType, "application/json")
              => call.result.data = [kind |-> "json", value |-> response.body.text]
         /\ ~Includes(response.contentType, "application/json")
              => call.result.data = [kind |-> "string", value |-> response.body.text]

\* C16 witness: a 404 with a JSON error body
C16_Witness ==
    /\ CallOperationEnded
    /\ Len(call.response) = 1
    /\ call.response[1].status = 404
    /\ ~call.result.success
    /\ call.result.statusCode = 404
    /\ call.result.error = "HTTP 404: Not Found"
    /\ call.result.data = [kind |-> "json", value |-> "{\"error\":\"no such pet\"}"]

-----------------------------------------------------------------------------
(* Claims about URL synthesis (SpecRequest)                                *)

\* the declared parameters of the call's operation at a location
DeclaredAt(location) ==
    {i \in 1..Len(call.operation.parameters) : call.operation.parameters[i].in = location}

\* the caller left out the value of the operation's i-th declared parameter
Omitted(i) ==
    \/ ~call.params.hasParameters
    \/ CallerValue(call.operation.parameters[i].name) = Undefined

Placeholder(name) == "{" \o name \o "}"

\* C18: the URL of a request that reaches synthesis contains no placeholder of a
\* declared path parameter: every occurrence was replaced by the encoded value.
C18_CompletePathSubstitution ==
    Issued =>
      \A i \in DeclaredAt("path") :
          ~Includes(call.request.url, Placeholder(call.operation.parameters[i].name))

\* the caller gave the value a value: neither left out nor null
Supplied(v) == v # Undefined /\ v # Null

\* the fragments the claim expects: one per declared query parameter with a supplied
\* value, in declared order
RECURSIVE ExpectedFragments(_)
ExpectedFragments(i) ==
    IF i > Len(call.operation.parameters) THEN <<>>
    ELSE LET param == call.operation.parameters[i]
         IN (IF param.in = "query" /\ Supplied(CallerValue(param.name))
             THEN <<encodeURIComponent(param.name) \o "="
                    \o encodeURIComponent(JsString(CallerValue(param.name)))>>
             ELSE <<>>)
            \o ExpectedFragments(i + 1)

EndsWith(s, t) == Len(s) >= Len(t) /\ SubSeq(s, Len(s) - Len(t) + 1, Len(s)) = t

\* C19: the query string is made of one name=value fragment per declared query
\* parameter the caller supplied a value for, joined by & in declared order;
\* parameters without a value and undeclared keys contribute nothing.
C19_QueryStringConstruction ==
    Issued =>
      IF Len(ExpectedFragments(1)) = 0
      THEN ~Includes(call.request.url, "?")
      ELSE EndsWith(call.request.url, "?" \o JoinAmp(ExpectedFragments(1)))

\* s without its trailing slashes
RECURSIVE StripTrailingSlashes(_)
StripTrailingSlashes(s) ==
    IF EndsWith(s, "/") THEN StripTrailingSlashes(SubSeq(s, 1, Len(s) - 1)) ELSE s

\* the URL has exactly one slash between the base and the path
OneSlashAtJoin ==
    /\ StartsWith(call.request.url, StripTrailingSlashes(call.baseUrl) \o "/")
    /\ ~StartsWith(call.request.url, StripTrailingSlashes(call.baseUrl) \o "//")

-----------------------------------------------------------------------------
(* The deletion model: a process that starts on whatever session file is there,
   calls APIs and deletes sessions; no manage_auth, so that every credential
   the client holds comes from a session record                             *)

SpecDelete ==
    InitStore /\ [][\/ \E sessionId \in SessionIds : DeleteSession(sessionId)
                    \/ \E params \in StoreCalls : CallApi(params)
                    \/ CallApiParsed
                    \/ \E response \in Responses : FetchResolves(response)
                    \/ FetchRejects(ConnectionRefused)
                    \/ CallApiReturns
                    \/ LoadAuthFromSessions]_vars

-----------------------------------------------------------------------------
(* The session model: init_api with base URLs that differ in a trailing slash
   only, manage_auth for one of them, and manage_session                    *)

SpecSessions ==
    Init /\ [][\/ \E base_url \in BaseUrls \cup {"https://a.io/"},
                     openapi_path \in OpenApiPaths : InitApi(base_url, openapi_path)
               \/ \E sessionId \in SessionIds : ActivateSession(sessionId)
               \/ \E sessionId \in SessionIds : DeleteSession(sessionId)
               \/ \E authConfig \in StoreAuthConfigs :
                      ManageAuth("https://a.io", authConfig)
               \/ LoadAuthFromSessions]_vars

-----------------------------------------------------------------------------
(* Claims about lookup failures and retries (SpecRequest)                  *)

\* what the parse of the invocation's docs_path gives
CalledInfo == parseOpenApi(Documents(call.params.docs_path), call.params.docs_path)

\* the invocation ended on a parsed document that has no operation of the requested id
UnknownOperation ==
    /\ call.pc = "done"
    /\ CalledInfo.parsed
    /\ ~HasOperation(CalledInfo, call.params.operation_id)

\* the operation ids of the parsed document, in document order
OperationIds(info) == [i \in 1..Len(info.operations) |-> info.operations[i].operationId]

\* call_api ended because the requested id is no operationId of the document
OperationNotFound ==
    /\ call.pc = "done"
    /\ call.outcome = "operation_not_found"

\* C21 as stated: when the requested operation id is not an operationId of the
\* normalized document, call_api performs no HTTP request and its failure gives
\* the caller the document's available operation ids.
C21_OperationNotFound ==
    UnknownOperation
    => /\ OperationNotFound
       /\ call.requests = 0
       /\ call.availableOps = OperationIds(CalledInfo)

\* C21 amended: no HTTP request is performed and the failure lists the first ten
\* operation ids of the document in document order, which are all of them when
\* the document has at most ten operations.
C21_OperationNotFoundFirstTen ==
    UnknownOperation
    => /\ OperationNotFound
       /\ call.requests = 0
       /\ Len(call.availableOps) <= 10
       /\ call.availableOps = SubSeq(OperationIds(CalledInfo), 1, Len(call.availableOps))
       /\ (Len(CalledInfo.operations) <= 10
             => Len(call.availableOps) = Len(CalledInfo.operations))
       /\ (Len(CalledInfo.operations) > 10 => Len(call.availableOps) = 10)

\* C21 witness: an id absent from a document of more than ten operations was
\* answered with ten ids
C21_Witness ==
    /\ OperationNotFound
    /\ Len(CalledInfo.operations) > 10
    /\ Len(call.availableOps) = 10
    /\ call.requests = 0

\* C22: an invocation issues at most one HTTP request and returns at most one
\* result; a rejected fetch ends the invocation at once, with one failed result
\* and without another request, and the only step after a result is the return.
C22_NoAutomaticRetry ==
    /\ [](call.requests <= 1 /\ call.results <= 1)
    /\ [][/\ (call.pc = "fetching" /\ call'.rejection.thrown)
               => /\ call'.pc = "done"
                  /\ call'.requests = call.requests
                  /\ call'.results = 1
                  /\ ~call'.result.success
          /\ (call.pc = "done" /\ call' # call) => call' = IdleCall]_vars

\* C22 witness: a refused connection ended an invocation after one request with
\* one failed result
C22_Witness ==
    /\ CallOperationEnded
    /\ call.rejection.thrown
    /\ StartsWith(call.rejection.message, "connect ECONNREFUSED")
    /\ call.requests = 1
    /\ call.results = 1
    /\ ~call.result.success

-----------------------------------------------------------------------------
(* Claims about the operation listing (SpecList)                           *)

Listed == ret.op = "list_operations"

\* the normalized document list_operations was called on
ListedInfo ==
    parseOpenApi(Documents(ret.value.params.docs_path), ret.value.params.docs_path)

\* the tag filter: a case-insensitive substring match against any tag
TagMatches(op, tag) ==
    \E t \in 1..Len(op.tags) : Includes(toLowerCase(op.tags[t]), toLowerCase(tag))

\* the method filter: a case-insensitive exact match
MethodMatches(op, method) == toLowerCase(op.method) = toLowerCase(method)

\* the ids of the operations that satisfy the filters in force, in the order of
\* the normalized document
Satisfying(tagInForce, methodInForce) ==
    LET Test(op) ==
            /\ tagInForce => TagMatches(op, ret.value.params.tag)
            /\ methodInForce => MethodMatches(op, ret.value.params.method)
        ops == SelectSeq(ListedInfo.operations, Test)
    IN [i \in 1..Len(ops) |-> ops[i].operationId]

HeadingOf(id) ==
    LET op == findOperation(ListedInfo, id)
    IN IF Len(op.tags) > 0 /\ op.tags[1] # "" THEN op.tags[1] ELSE "General"

\* the position of an operation id in a sequence of distinct ids
PositionIn(ids, id) == CHOOSE i \in 1..Len(ids) : ids[i] = id

-----------------------------------------------------------------------------
(* Claims about the request body and the auth header (SpecRequest)         *)

\* the caller's body_ entries with the prefix stripped, in the caller's key order
PrefixedEntries ==
    LET prefixed == SelectSeq(call.params.parameters,
                              LAMBDA e : StartsWith(e[1], "body_"))
    IN [i \in 1..Len(prefixed) |->
           <<SubSeq(prefixed[i][1], 6, Len(prefixed[i][1])), Stringify(prefixed[i][2])>>]

\* C24: a request carries a body exactly when the method is POST, PUT or PATCH and
\* the operation declares a request body; when no body object is supplied that
\* body is the flat JSON object of the caller's body_ keys without their prefix,
\* which is {} when there is no such key.
C24_PrefixedBodyAssembly ==
    Issued =>
      /\ call.request.hasBody
           <=> /\ call.operation.method \in {"POST", "PUT", "PATCH"}
               /\ call.operation.requestBody.declared
      /\ (call.request.hasBody /\ ~BodyObjectGiven)
           => /\ call.request.body = Stringify(Obj(PrefixedEntries))
              /\ ~BodyKeysGiven => call.request.body = "{}"

\* C24 witness: a PUT was issued whose body was assembled from body_name alone
C24_Witness ==
    /\ Issued
    /\ call.operation.method = "PUT"
    /\ call.request.hasBody
    /\ ~BodyObjectGiven
    /\ BodyKeysGiven
    /\ call.request.body = "{\"name\":\"Fluffy\"}"

\* the request carries the auth header of the descriptor's kind
CarriesAuthHeader(a) ==
    /\ Has(call.request.headers, AuthHeaderName(a))
    /\ GetOr(call.request.headers, AuthHeaderName(a), "") = AuthHeaderValue(a)

\* C25: every request synthesized with an auth descriptor, stored or inline,
\* carries the auth header of the descriptor's kind; none is sent without it.
C25_NoSilentDowngrade ==
    (Issued /\ call.authConfig # NoAuth) => CarriesAuthHeader(call.authConfig)

-----------------------------------------------------------------------------
(* Claims about deleted sessions (SpecDelete)                              *)

\* a session record of the store that carries credentials for the api source
RecordFor(apiSource) ==
    \E i \in 1..Len(storage.sessions) :
        /\ storage.sessions[i][2].authConfig # NoAuth
        /\ apiSource \in {storage.sessions[i][2].openApiPath,
                          storage.sessions[i][2].baseUrl}

\* C26: in a process whose credentials all come from session records, a call_api
\* for a source whose record has been deleted resolves no credentials and sends
\* no auth header derived from the deleted record.
C26_DeletionDestroysCredentials ==
    (Issued /\ ~RecordFor(call.params.docs_path))
    => /\ call.authConfig = NoAuth
       /\ ~Has(call.request.headers, "Authorization")

-----------------------------------------------------------------------------
(* Claims about the store's pointer and its unknown ids (SpecStore)        *)

\* the active-session pointer is unset or names a session of the store
PointerValid(st) == st.activeSessionId = "" \/ Has(st.sessions, st.activeSessionId)

\* the ids of the most recently used sessions of a store
MostRecentlyUsed(st) ==
    {st.sessions[i][1] : i \in {i \in 1..Len(st.sessions) :
        \A j \in 1..Len(st.sessions) :
            st.sessions[i][2].lastUsed >= st.sessions[j][2].lastUsed}}

IdMethods == {"updateSession", "setActiveSession", "deleteSession", "setAuthConfig"}

-----------------------------------------------------------------------------
(* Claims about sessions per API (SpecSessions) and the credential map (Spec) *)

\* protocol, host and path with one trailing slash removed, for the URLs used
Normalized(url) ==
    IF Len(url) > 0 /\ SubSeq(url, Len(url), Len(url)) = "/"
    THEN SubSeq(url, 1, Len(url) - 1) ELSE url

\* the positions of the sessions whose base URL has the normal form of url
SessionsOf(st, url) ==
    {i \in 1..Len(st.sessions) : Normalized(st.sessions[i][2].baseUrl) = Normalized(url)}

\* C29: no two sessions of the store have the same normalized base URL, and an
\* init_api for a base URL that has a session makes that session the active one,
\* creates none and keeps the session's auth descriptor.
C29_OneSessionPerApi ==
    /\ [](\A i \in 1..Len(storage.sessions) :
              SessionsOf(storage, storage.sessions[i][2].baseUrl) = {i})
    /\ [][(hist'.phase = "initialized" /\ SessionsOf(storage, hist'.src) # {})
            => \A i \in SessionsOf(storage, hist'.src) :
                 /\ Len(storage'.sessions) = Len(storage.sessions)
                 /\ storage'.activeSessionId = storage.sessions[i][1]
                 /\ Has(storage'.sessions, storage.sessions[i][1])
                 /\ getSession(storage', storage.sessions[i][1]).authConfig
                      = storage.sessions[i][2].authConfig
                 /\ getSession(storage', storage.sessions[i][1]).baseUrl
                      = storage.sessions[i][2].baseUrl]_vars

\* C29 witness: init_api with a trailing slash found the session made without
\* it, made no second one and left it its credentials
C29_Witness ==
    /\ hist.phase = "initialized"
    /\ hist.src = "https://a.io/"
    /\ Len(storage.sessions) = 1
    /\ getSession(storage, storage.activeSessionId).baseUrl = "https://a.io"
    /\ getSession(storage, storage.activeSessionId).authConfig = Bearer("t1")

\* C30: once manage_auth for source X has succeeded on a loaded, idle client and
\* its reload has completed, the entry of the credential map for X is the
\* descriptor just configured, and every key of the map that is the openApiPath
\* or the baseUrl of a session maps to that session's current auth descriptor.
C30_StoreAgreement ==
    ManageAuthSettled =>
      /\ getAuthConfig(authConfigs, hist.src) = hist.authConfig
      /\ \A k \in ApiSources, i \in 1..Len(storage.sessions) :
           (/\ getAuthConfig(authConfigs, k) # NoAuth
            /\ k \in {storage.sessions[i][2].openApiPath, storage.sessions[i][2].baseUrl})
           => getAuthConfig(authConfigs, k) = storage.sessions[i][2].authConfig

====
